---------------------------- MODULE Spec2Model ----------------------------
(***************************************************************************)
(* A model of polyglot-scholar's translation pipeline.                     *)
(*                                                                         *)
(*  - translateText (src/src/services/translationService.ts:158-272): the  *)
(*    batch dispatcher with per-segment retry, the results array, the      *)
(*    watermark nextToEmit and the joined text handed to onProgress.       *)
(*  - the proxy's echo of the correlation token (src/server/index.js).     *)
(*  - the UI result store of App (src/unnamed/part_002): outputChunks,     *)
(*    chunkStates, chunkStatesRef, setChunkContentAtomic, onProgress.      *)
(*                                                                         *)
(* Text is a sequence of tokens.  A token is an opaque piece of non-empty, *)
(* non-whitespace text (a segment's translation, an error placeholder, a   *)
(* part header) or the whitespace "\n\n".  trim and stripPartHeader act    *)
(* on token sequences as the string functions act on the strings.          *)
(***************************************************************************)
EXTENDS Integers, Sequences, FiniteSets, TLC

(***************************************************************************)
(* Bounds of the model.                                                    *)
(***************************************************************************)
\* The largest number of segments of a translateText job served by the
\* repository's proxy.
MaxTotal == 4
\* The largest number of segments of a job served by an arbitrary backend.
MaxTotalAny == 2
\* The largest number of segments of a UI job.
MaxUiTotal == 2
\* The largest number of progress updates delivered to the UI in one job.
MaxUpdates == 4
\* the most segments of a translateTextStream job
MaxStreamTotal == 3
\* computeOffsets: the longest original text, the longest chunk (the
\* position marker apart) and the most chunks.
MaxOrigLen == 3
MaxChunkLen == 2
MaxChunks == 2
\* The length of the probe, 50 characters in the source, scaled to the
\* lengths above so that a chunk can be longer than its probe.
ProbeLen == 1
\* splitTextIntoChunks: the longest input text and the largest size asked for.
MaxTextLen == 5
MaxSize == 3
\* The proxy: the most chunks it writes through to a streaming response.
MaxPiped == 2
\* The hard split: the longest sentence and the largest size asked for.
MaxSentenceLen == 8
MaxWindow == 6

(***************************************************************************)
(* Program constants.                                                      *)
(***************************************************************************)
maxRetries == 3

Models == {"gpt-4o", "deepseek-v3", "claude-3-sonnet"}

\* const concurrency = model === 'deepseek-v3' ? 2 : 3;
ConcurrencyOneTooMany(m) == IF m = "deepseek-v3" THEN 3 ELSE 4
concurrency(m) == IF m = "deepseek-v3" THEN 2 ELSE 3

(***************************************************************************)
(* Text.                                                                   *)
(***************************************************************************)
NL2 == [k |-> "nl2", n |-> 0]
\* The translated text the provider returns for segment j.
Tr(j) == [k |-> "tr", n |-> j]
\* An English part header "[Part i of n]" a provider may put before a
\* translation.
PartHdr == [k |-> "hdr", n |-> 0]
\* The two halves of a part header that arrives cut in two: "[Part 1 of"
\* and " 3]".
HdrA == [k |-> "hdrA", n |-> 0]
HdrB == [k |-> "hdrB", n |-> 0]
\* `[翻译错误: 第${i + 1}部分未能成功翻译]`, without its trailing "\n\n".
ErrMarkZeroBased(i) == [k |-> "err", n |-> i]
ErrMark(i) == [k |-> "err", n |-> i + 1]

IsSpace(t) == t.k = "nl2"

RECURSIVE TrimLeft(_)
TrimLeft(s) ==
  IF s = <<>> THEN <<>>
  ELSE IF IsSpace(Head(s)) THEN TrimLeft(Tail(s)) ELSE s

RECURSIVE TrimRight(_)
TrimRight(s) ==
  IF s = <<>> THEN <<>>
  ELSE IF IsSpace(s[Len(s)]) THEN TrimRight(SubSeq(s, 1, Len(s) - 1)) ELSE s

\* String.prototype.trim
Trim(s) == TrimRight(TrimLeft(s))

\* s.replace(/^\s*(\*\*\s*)?\[\s*Part\s+\d+\s+of\s+\d+\s*\](\s*\*\*)?\s*/i, '')
\* (the second replace, of the Chinese marker, finds nothing in a
\* translation that holds none): leading whitespace, the header and the
\* whitespace after it are removed when the header is there; otherwise
\* the text is left as it is.
stripPartHeader(s) ==
  LET t == TrimLeft(s) IN
    IF t # <<>> /\ Head(t).k = "hdr" THEN TrimLeft(Tail(t))
    ELSE IF Len(t) >= 2 /\ t[1].k = "hdrA" /\ t[2].k = "hdrB"
         THEN TrimLeft(SubSeq(t, 3, Len(t)))
         ELSE s

\* The payloads a provider may return for segment j:
\* choices[0].message.content / content[0].text.
Payloads(j) == { <<Tr(j)>>, <<PartHdr, NL2, Tr(j)>> }

Undefined == <<[k |-> "undefined", n |-> 0]>>


(***************************************************************************)
(* Failed attempts.  A failed axios.post rejects with an error that has a  *)
(* code and a message; an envelope that reports failure is thrown as a     *)
(* plain Error (line 203), which has no code.                              *)
(***************************************************************************)
Errors ==
  { [kind |-> "timeout",  code |-> "ECONNABORTED",
     message |-> "timeout of 60000ms exceeded"],
    [kind |-> "refused",  code |-> "ECONNREFUSED",
     message |-> "connect ECONNREFUSED 127.0.0.1:3001"],
    [kind |-> "reset",    code |-> "ECONNRESET",
     message |-> "read ECONNRESET"],
    [kind |-> "http",     code |-> "ERR_BAD_RESPONSE",
     message |-> "Request failed with status code 500"],
    [kind |-> "aborted",  code |-> "ERR_CANCELED",
     message |-> "Request aborted"],
    [kind |-> "envelope", code |-> "undefined",
     message |-> "unknown error"] }

\* The error kinds that are network-level failures (no HTTP response): timeout,
\* connection refused, connection reset.  Used by the properties only.
NetworkKinds == {"timeout", "refused", "reset"}

\* The error kinds that are not transient: an HTTP error response, a
\* response that cannot be read.  Used by the properties only.
PermanentKinds == {"http", "envelope"}

\* String.prototype.includes, for the two needles the classifier looks for.
Includes(message, needle) ==
  CASE needle = "aborted"     -> message \in {"Request aborted"}
    [] needle = "ERR_NETWORK" -> message \in {}
    [] OTHER                  -> FALSE

isTransientAlways(e) == e.code = e.code

\* const isTransient = chunkError.code === 'ECONNABORTED' || ... (238-242)
isTransient(e) ==
  \/ e.code = "ECONNABORTED"
  \/ e.code = "ECONNREFUSED"
  \/ Includes(e.message, "ERR_NETWORK")
  \/ Includes(e.message, "aborted")

\* if (retryCount === maxRetries)  (222)
ExhaustedOneEarly(r) == r = maxRetries - 1
Exhausted(r) == r = maxRetries

(***************************************************************************)
(* State.                                                                  *)
(***************************************************************************)
VARIABLES
  \* ---- translateText ----
  model,              \* the request's model name
  total,              \* chunks.length
  backend,            \* "proxy": server/index.js; "any": any other backend
  results,            \* results[0..total-1]: a text, or Undefined
  nextToEmit,         \* the watermark
  translatedText,     \* the text joined so far
  translationErrors,  \* the job's error list (the entries' chunkIndex;
                      \* their message is not modelled)
  batchStart,         \* i of the batch loop (251)
  jobPc,              \* "start" | "await" | "returned" | "thrown"
  returned,           \* the translatedText of the returned response
  chunkPc,            \* per segment: "idle" | "request" | "backoff" |
                      \*              "ok" | "failed"
  retryCount,         \* per segment: translateChunk's retryCount
  progress,           \* the arguments of the last onProgress call
  calls,              \* the number of onProgress calls
  \* observers of the translateChunk call of one segment, cleared when the
  \* call returns (as its local retryCount is)
  watched,            \* the segment observed
  waits,              \* the backoff waits it has started
  onlyNetwork,        \* its failed attempts were all of a network kind
  onlyPermanent,      \* its failed attempts were all of a permanent kind
  \* observer of the watched segment over the whole job
  attempts,           \* the requests issued for it
  \* ---- the UI result store ----
  uiTotal,            \* preChunks.length of the running job
  outputChunks,       \* state outputChunks, all queued updaters applied
  chunkStates,        \* state chunkStates, all queued updaters applied
  outputChunksRef,    \* outputChunksRef.current
  chunkStatesRef,     \* chunkStatesRef.current
  completedChunks,    \* state completedChunks, all queued updates applied
  updates,            \* progress updates delivered in this job
  everCompleted,      \* observer: the slots that have been 'completed'
  isLoading,          \* state isLoading: a handleTranslate job is running
  isRetrying,         \* state isRetrying: a handleRetryAll job is running
  outputText,         \* state outputText
  lastCaller          \* observer: the job of the last progress callback

tVars == <<model, total, backend, results, nextToEmit, translatedText,
           translationErrors, batchStart, jobPc, returned, chunkPc,
           retryCount, progress, calls, watched, waits, onlyNetwork,
           onlyPermanent, attempts>>
uiVars == <<uiTotal, outputChunks, chunkStates, outputChunksRef,
            chunkStatesRef, completedChunks, updates, everCompleted,
            isLoading, isRetrying, outputText, lastCaller>>

VARIABLES
  \* ---- translateTextStream ----
  \* (model, total, backend, results, nextToEmit, progress, calls and
  \* returned are those of the job that runs, translateText's or
  \* translateTextStream's: the two functions declare them alike)
  sPc,                \* "idle" | "fetch" | "read" | "returned" | "thrown"
  sI,                 \* i of the segment loop (312)
  lastMeta,           \* lastMeta.chunkIndex, or Null
  pending,            \* the rest of the segment's text, not yet received
  emitted             \* observer: per slot, the chunkDelta values joined

sVars == <<sPc, sI, lastMeta, pending, emitted>>
\* the variables that only translateText has
tOwn == <<translatedText, translationErrors, batchStart, jobPc, chunkPc,
          retryCount, watched, waits, onlyNetwork, onlyPermanent,
          attempts>>

VARIABLES
  \* ---- computeOffsets ----
  original,           \* the original text
  nChunks,            \* chunks.length
  ranges,             \* the ranges pushed so far
  pos,                \* the search position
  lastMarked,         \* observer: the last chunk had a position marker
  lastLen,            \* observer: the length of the last chunk, cleaned
  oPc                 \* "loop" | "done"

oVars == <<original, nChunks, ranges, pos, lastMarked, lastLen, oPc>>

VARIABLES
  \* ---- splitTextIntoChunks ----
  inputText,          \* the text to split, a sequence of characters
  maxChunkSize,       \* the size asked for
  splitChunks,        \* what the function has returned
  splitPc             \* "ready" | "current" | "old": the version that ran

gVars == <<inputText, maxChunkSize, splitChunks, splitPc>>

VARIABLES
  \* ---- the proxy ----
  pReq,               \* the request: provider, streaming, apikey, body
  pForwarded,         \* the body sent upstream, if one was
  pResp,              \* the status and the JSON response
  pEvents,            \* the events written to a streaming response
  pPc                 \* "received" | "upstream" | "piping" | "done"

pVars == <<pReq, pForwarded, pResp, pEvents, pPc>>

VARIABLES
  \* ---- the hard split of splitTextIntoChunks ----
  hVersion,           \* "current" | "old" | "none"
  hMax,               \* maxChunkSize
  hSentence,          \* the sentence to cut
  hRest,              \* rest: what is left to cut
  hPieces,            \* the pieces cut so far
  hPc                 \* "loop" | "done"

hVars == <<hVersion, hMax, hSentence, hRest, hPieces, hPc>>

VARIABLES
  \* ---- the UI without per-segment states (src/App.tsx) ----
  appOutputChunks,    \* state outputChunks, all queued updaters applied
  appTotalChunks,     \* state totalChunks, all queued updates applied
  closureTotalChunks, \* totalChunks as the running job's onProgress reads it
  appLoading,         \* state isLoading
  appUpdates          \* progress updates delivered since the page was loaded

aVars == <<appOutputChunks, appTotalChunks, closureTotalChunks, appLoading,
           appUpdates>>

vars == <<tVars, uiVars, sVars, oVars, gVars, pVars, hVars, aVars>>

Chunks == 0 .. total - 1

Min(a, b) == IF a < b THEN a ELSE b


(***************************************************************************)
(* translateText (translationService.ts:158-272).                          *)
(***************************************************************************)
IsDefined(r) == r # Undefined

\* while (typeof results[nextToEmit] !== 'undefined') {
\*   translatedText += results[nextToEmit]; nextToEmit++; }     (212-215)
\* results[total] is undefined: the loop stops at the end of the array.
RECURSIVE AdvanceNoGap(_, _, _)
AdvanceNoGap(res, n, text) ==
  IF n \in DOMAIN res
  THEN AdvanceNoGap(res, n + 1,
                    text \o (IF IsDefined(res[n]) THEN res[n] ELSE <<>>))
  ELSE [n |-> n, text |-> text]

AdvanceOnce(res, n, text) ==
  IF n \in DOMAIN res /\ IsDefined(res[n])
  THEN [n |-> n + 1, text |-> text \o res[n]]
  ELSE [n |-> n, text |-> text]

RECURSIVE AdvanceWatermark(_, _, _)
AdvanceWatermark(res, n, text) ==
  IF n \in DOMAIN res /\ IsDefined(res[n])
  THEN AdvanceWatermark(res, n + 1, text \o res[n])
  ELSE [n |-> n, text |-> text]

\* payload?._metadata?.clientMeta?.chunkIndex ?? i   (210)
\* The repository's proxy returns the request's __meta as clientMeta
\* (server/index.js:99-116), so the echoed index is the request's; another
\* backend may echo any index of the job.
EchoedIndex(j) == IF backend = "proxy" THEN {j} ELSE Chunks

\* The members of the batch that starts at i   (253)
Batch(i) == { j \in Chunks : i <= j /\ j < Min(i + concurrency(model), total) }

Settled(j) == chunkPc[j] \in {"ok", "failed"}

\* await Promise.all(batch)   (256)
BatchIdle(i) == \A j \in Batch(i) : chunkPc[j] # "request"
BatchSettled(i) == \A j \in Batch(i) : Settled(j)

NoProgress ==
  [text |-> <<>>, completed |-> 0, total |-> 0, lastChunkIndex |-> -1,
   chunkDelta |-> Undefined, chunkContent |-> Undefined,
   isChunkFinal |-> FALSE]

TInitModels(models, backends, totals) ==
  /\ model \in models
  /\ backend \in backends
  /\ total \in totals
  /\ results = [j \in 0 .. total - 1 |-> Undefined]
  /\ nextToEmit = 0
  /\ translatedText = <<>>
  /\ translationErrors = <<>>
  /\ batchStart = 0
  /\ jobPc = "start"
  /\ returned = Undefined
  /\ chunkPc = [j \in 0 .. total - 1 |-> "idle"]
  /\ retryCount = [j \in 0 .. total - 1 |-> 0]
  /\ progress = NoProgress
  /\ calls = 0
  /\ watched \in 0 .. (IF total = 0 THEN 0 ELSE total - 1)
  /\ waits = 0
  /\ onlyNetwork = TRUE
  /\ onlyPermanent = TRUE
  /\ attempts = 0

\* A job with one of the models the code knows.
TInit(backends, totals) == TInitModels(Models, backends, totals)

\* buildRequestBody and getApiEndpoint return for the model; for any other
\* they throw   (96-122, 129-139; getStreamEndpoint 291-296)
Supported(m) == m \in Models

\* if (translationErrors.length === total)   (260)
AnyFailed == Len(translationErrors) > 0
AllFailed == Len(translationErrors) = total

\* errors: translationErrors.length > 0 ? translationErrors : undefined (266)
ReturnedErrors ==
  IF Len(translationErrors) > 0 THEN translationErrors ELSE Undefined

\* The batch loop from "i" on (251-268): either the batch at i is
\* dispatched, each translateChunk(j) running up to its first axios.post,
\* or the loop is over and the job returns, or throws when every segment
\* is in the error list.  For a model that is not supported every
\* translateChunk(j) of the batch rejects at buildRequestBody (184-187),
\* before its retry loop, and Promise.all (256) throws.
LoopFrom(i) ==
  /\ batchStart' = i
  /\ IF i < total /\ Supported(model)
     THEN /\ jobPc' = "await"
          /\ chunkPc' = [j \in Chunks |->
                           IF j \in Batch(i) THEN "request" ELSE chunkPc[j]]
          /\ attempts' = IF watched \in Batch(i) THEN 1 ELSE attempts
          /\ returned' = returned
     ELSE IF i < total
     THEN /\ jobPc' = "thrown"
          /\ UNCHANGED <<chunkPc, attempts, returned>>
     ELSE /\ IF AllFailed
             THEN jobPc' = "thrown" /\ returned' = returned
             ELSE jobPc' = "returned" /\ returned' = Trim(translatedText)
          /\ UNCHANGED <<chunkPc, attempts>>
  /\ UNCHANGED <<model, total, backend, results, nextToEmit, translatedText,
                 translationErrors, retryCount, progress, calls, watched,
                 waits, onlyNetwork, onlyPermanent>>

\* translateText is called: the first batch is dispatched.
Start ==
  /\ jobPc = "start"
  /\ sPc = "idle"
  /\ LoopFrom(0)
  /\ UNCHANGED <<uiVars, sVars, oVars, gVars, pVars, hVars, aVars>>

\* Promise.all of the current batch resolves: i += concurrency.
BatchDone ==
  /\ jobPc = "await"
  /\ BatchSettled(batchStart)
  /\ LoopFrom(batchStart + concurrency(model))
  /\ UNCHANGED <<uiVars, sVars, oVars, gVars, pVars, hVars, aVars>>

\* The request of segment j succeeds (200-220).
Success(j, payload, echo) ==
  /\ jobPc = "await"
  /\ chunkPc[j] = "request"
  /\ LET chunkTranslation == stripPartHeader(payload)
         serverChunkIdx == echo
         res == [results EXCEPT ![serverChunkIdx] =
                   chunkTranslation \o (IF total > 1 THEN <<NL2>> ELSE <<>>)]
         w == AdvanceWatermark(res, nextToEmit, translatedText)
     IN /\ results' = res
        /\ nextToEmit' = w.n
        /\ translatedText' = w.text
        /\ progress' = [text |-> Trim(w.text), completed |-> w.n,
                        total |-> total, lastChunkIndex |-> serverChunkIdx,
                        chunkDelta |-> chunkTranslation,
                        chunkContent |-> res[serverChunkIdx],
                        isChunkFinal |-> TRUE]
  /\ calls' = calls + 1
  /\ chunkPc' = [chunkPc EXCEPT ![j] = "ok"]
  /\ retryCount' = [retryCount EXCEPT ![j] = 0]
  /\ waits' = IF j = watched THEN 0 ELSE waits
  /\ onlyNetwork' = IF j = watched THEN TRUE ELSE onlyNetwork
  /\ onlyPermanent' = IF j = watched THEN TRUE ELSE onlyPermanent
  /\ UNCHANGED <<model, total, backend, translationErrors, batchStart, jobPc,
                 returned, watched, attempts>>
  /\ UNCHANGED <<uiVars, sVars, oVars, gVars, pVars, hVars, aVars>>

\* The request of segment j fails with error e (221-247): the segment is
\* settled as an error when the budget is spent; otherwise the next attempt
\* follows, after a wait of retryDelay when the error is transient.
Failure(j, e) ==
  /\ jobPc = "await"
  /\ chunkPc[j] = "request"
  /\ IF Exhausted(retryCount[j])
     THEN LET res == [results EXCEPT ![j] = <<ErrMark(j), NL2>>]
              w == AdvanceWatermark(res, nextToEmit, translatedText)
          IN /\ translationErrors' =
                  Append(translationErrors, [chunkIndex |-> j])
             /\ results' = res
             /\ nextToEmit' = w.n
             /\ translatedText' = w.text
             /\ progress' = [NoProgress EXCEPT !.text = Trim(w.text),
                                               !.completed = w.n,
                                               !.total = total]
             /\ calls' = calls + 1
             /\ chunkPc' = [chunkPc EXCEPT ![j] = "failed"]
             /\ retryCount' = [retryCount EXCEPT ![j] = 0]
             /\ waits' = IF j = watched THEN 0 ELSE waits
             /\ onlyNetwork' = IF j = watched THEN TRUE ELSE onlyNetwork
             /\ onlyPermanent' = IF j = watched THEN TRUE
                                ELSE onlyPermanent
             /\ UNCHANGED attempts
     ELSE /\ onlyNetwork' = IF j = watched
                            THEN onlyNetwork /\ e.kind \in NetworkKinds
                            ELSE onlyNetwork
          /\ onlyPermanent' = IF j = watched
                              THEN onlyPermanent /\ e.kind \in PermanentKinds
                              ELSE onlyPermanent
          /\ IF isTransient(e)
             THEN /\ chunkPc' = [chunkPc EXCEPT ![j] = "backoff"]
                  /\ waits' = IF j = watched THEN waits + 1 ELSE waits
                  /\ UNCHANGED <<retryCount, attempts>>
             ELSE /\ retryCount' = [retryCount EXCEPT ![j] = @ + 1]
                  /\ attempts' = IF j = watched THEN attempts + 1
                                 ELSE attempts
                  /\ UNCHANGED <<chunkPc, waits>>
          /\ UNCHANGED <<results, nextToEmit, translatedText,
                         translationErrors, progress, calls>>
  /\ UNCHANGED <<model, total, backend, batchStart, jobPc, returned, watched>>
  /\ UNCHANGED <<uiVars, sVars, oVars, gVars, pVars, hVars, aVars>>

\* The request of segment j succeeds and the onProgress call made for it
\* (216-219) throws e.  The call is inside the try block (191-220), so the
\* catch at 221 takes e for a failure of the attempt, after the content was
\* stored (211) and the watermark advanced (212-215).  The callback the
\* catch block makes (233-235) is taken to return.
SuccessCallbackThrows(j, payload, echo, e) ==
  /\ jobPc = "await"
  /\ chunkPc[j] = "request"
  /\ LET chunkTranslation == stripPartHeader(payload)
         serverChunkIdx == echo
         res == [results EXCEPT ![serverChunkIdx] =
                   chunkTranslation \o (IF total > 1 THEN <<NL2>> ELSE <<>>)]
         w == AdvanceWatermark(res, nextToEmit, translatedText)
     IN IF Exhausted(retryCount[j])
        THEN LET res2 == [res EXCEPT ![j] = <<ErrMark(j), NL2>>]
                 w2 == AdvanceWatermark(res2, w.n, w.text)
             IN /\ translationErrors' =
                     Append(translationErrors, [chunkIndex |-> j])
                /\ results' = res2
                /\ nextToEmit' = w2.n
                /\ translatedText' = w2.text
                /\ progress' = [NoProgress EXCEPT !.text = Trim(w2.text),
                                                  !.completed = w2.n,
                                                  !.total = total]
                /\ calls' = calls + 2
                /\ chunkPc' = [chunkPc EXCEPT ![j] = "failed"]
                /\ retryCount' = [retryCount EXCEPT ![j] = 0]
                /\ waits' = IF j = watched THEN 0 ELSE waits
                /\ onlyNetwork' = IF j = watched THEN TRUE ELSE onlyNetwork
                /\ onlyPermanent' = IF j = watched THEN TRUE
                                   ELSE onlyPermanent
                /\ UNCHANGED attempts
        ELSE /\ results' = res
             /\ nextToEmit' = w.n
             /\ translatedText' = w.text
             /\ progress' = [text |-> Trim(w.text), completed |-> w.n,
                             total |-> total,
                             lastChunkIndex |-> serverChunkIdx,
                             chunkDelta |-> chunkTranslation,
                             chunkContent |-> res[serverChunkIdx],
                             isChunkFinal |-> TRUE]
             /\ calls' = calls + 1
             /\ onlyNetwork' = IF j = watched
                               THEN onlyNetwork /\ e.kind \in NetworkKinds
                               ELSE onlyNetwork
             /\ onlyPermanent' = IF j = watched
                                 THEN onlyPermanent /\ e.kind \in PermanentKinds
                                 ELSE onlyPermanent
             /\ IF isTransient(e)
                THEN /\ chunkPc' = [chunkPc EXCEPT ![j] = "backoff"]
                     /\ waits' = IF j = watched THEN waits + 1 ELSE waits
                     /\ UNCHANGED <<retryCount, attempts>>
                ELSE /\ retryCount' = [retryCount EXCEPT ![j] = @ + 1]
                     /\ attempts' = IF j = watched THEN attempts + 1
                                    ELSE attempts
                     /\ UNCHANGED <<chunkPc, waits>>
             /\ UNCHANGED translationErrors
  /\ UNCHANGED <<model, total, backend, batchStart, jobPc, returned, watched>>
  /\ UNCHANGED <<uiVars, sVars, oVars, gVars, pVars, hVars, aVars>>

(***************************************************************************)
(* The shapes of response.data (200-209).  success is "true", "false" or   *)
(* "undefined"; data is "payload" (a provider payload) or "undefined";     *)
(* bare tells whether response.data itself has the provider's fields       *)
(* (choices / content).                                                    *)
(***************************************************************************)
ResponseShapes ==
  [ success : { "true", "false", "undefined" },
    data : { "payload", "undefined" },
    bare : BOOLEAN ]

\* if (!response.data.success && !response.data.data) { if (typeof
\* response.data.success === 'undefined' && response.data.data) {} else
\* { throw new Error(...) } }   (200-205)
ReportedFailure(r) ==
  /\ r.success # "true" /\ r.data = "undefined"
  /\ ~(r.success = "undefined" /\ r.data # "undefined")

\* const payload = typeof response.data?.success !== 'undefined' &&
\* response.data?.data ? response.data.data : response.data   (206-208)
UnwrappedPayload(r) ==
  IF r.success # "undefined" /\ r.data # "undefined" THEN "data" ELSE "whole"

\* parseApiResponse(model, payload): responseData = response?.data ?
\* response.data : response, then responseData.choices[0].message.content
\* or responseData.content[0].text, a TypeError when the field is not there
\* (143-155)
ParseThrows(r) ==
  /\ UnwrappedPayload(r) = "whole"
  /\ r.data = "undefined"
  /\ ~r.bare

\* new Error(response.data.error || '未知错误')   (203)
EnvelopeError == CHOOSE e \in Errors : e.kind = "envelope"

\* axios.post of segment j resolves with a response of shape r (200-220):
\* the attempt fails when the check at 200 or the parser throws (221),
\* and succeeds otherwise; the echoed index is read from the unwrapped
\* payload (210).
Response(j, r, payload, echo) ==
  IF ReportedFailure(r) \/ ParseThrows(r)
    THEN Failure(j, EnvelopeError)
    ELSE Success(j, payload, IF UnwrappedPayload(r) = "data" THEN echo ELSE j)

\* The retryDelay timer of segment j fires (244-246): retryCount++ and the
\* next attempt is issued.
BackoffDone(j) ==
  /\ jobPc = "await"
  /\ chunkPc[j] = "backoff"
  /\ chunkPc' = [chunkPc EXCEPT ![j] = "request"]
  /\ retryCount' = [retryCount EXCEPT ![j] = @ + 1]
  /\ attempts' = IF j = watched THEN attempts + 1 ELSE attempts
  /\ UNCHANGED <<model, total, backend, results, nextToEmit, translatedText,
                 translationErrors, batchStart, jobPc, returned, progress,
                 calls, watched, waits, onlyNetwork, onlyPermanent>>
  /\ UNCHANGED <<uiVars, sVars, oVars, gVars, pVars, hVars, aVars>>



(***************************************************************************)
(* translateTextStream (translationService.ts:274-382).                    *)
(***************************************************************************)
Null == -1

\* JavaScript truthiness of a slot: undefined and '' are falsy.
Truthy(r) == r # Undefined /\ r # <<>>

\* results.map((r) => (r ? r + (total > 1 ? '\n\n' : '') : '')).join('')
\* of the first n slots   (367, 377, 381)
RECURSIVE MapJoin(_, _)
MapJoin(res, n) ==
  IF n = 0 THEN <<>>
  ELSE MapJoin(res, n - 1) \o
         (IF Truthy(res[n - 1])
          THEN res[n - 1] \o (IF total > 1 THEN <<NL2>> ELSE <<>>)
          ELSE <<>>)

Assembled(res) == Trim(MapJoin(res, total))

\* results.filter(Boolean).join('') of the first n slots   (334)
RECURSIVE FilterJoin(_, _)
FilterJoin(res, n) ==
  IF n = 0 THEN <<>>
  ELSE FilterJoin(res, n - 1) \o
         (IF Truthy(res[n - 1]) THEN res[n - 1] ELSE <<>>)

\* s.slice(n)
Slice(s, n) == SubSeq(s, n + 1, Len(s))

\* The text a provider may stream for segment j, as the concatenation of
\* its deltas: nothing at all (the proxy answers 200 and reports an upstream
\* failure as an "error" event, server/index.js:380-384), a translation, a
\* part header followed by a translation.
RawTexts(j) == { <<>>, <<Tr(j), Tr(j)>>, <<HdrA, HdrB, NL2, Tr(j)>> }

SInit ==
  /\ sPc = "idle"
  /\ sI = 0
  /\ lastMeta = Null
  /\ pending = <<>>
  /\ emitted = [j \in 0 .. total - 1 |-> <<>>]

\* The segment loop from "i" on (312, 380-381): the request of segment i
\* is sent, or the loop is over and the job returns.  For a model that is
\* not supported getStreamEndpoint throws (313) and nothing catches it.
StreamLoopFrom(i, res) ==
  /\ sI' = i
  /\ IF i < total /\ Supported(model)
     THEN sPc' = "fetch" /\ returned' = returned
     ELSE IF i < total
     THEN sPc' = "thrown" /\ returned' = returned
     ELSE sPc' = "returned" /\ returned' = Assembled(res)

\* translateTextStream is called.
StreamStart ==
  /\ sPc = "idle"
  /\ jobPc = "start"
  /\ StreamLoopFrom(0, results)
  /\ UNCHANGED <<model, total, backend, results, nextToEmit, progress, calls,
                 lastMeta, pending, emitted>>
  /\ UNCHANGED <<tOwn, uiVars, oVars, gVars, pVars, hVars, aVars>>

\* fetch rejects (the connection cannot be opened): the await at 319 throws
\* and nothing catches it.
FetchRejected ==
  /\ sPc = "fetch"
  /\ sPc' = "thrown"
  /\ UNCHANGED <<model, total, backend, results, nextToEmit, progress, calls,
                 returned, sI, lastMeta, pending, emitted>>
  /\ UNCHANGED <<tOwn, uiVars, oVars, gVars, pVars, hVars, aVars>>

\* if (!resp.ok || !resp.body) { ... continue; }   (329-336)
FetchNotOk(kind) ==
  /\ sPc = "fetch"
  /\ kind \in {"notOk", "noBody"}
  /\ LET res == [results EXCEPT ![sI] = <<ErrMark(sI), NL2>>]
         n == AdvanceWatermark(res, nextToEmit, <<>>).n
     IN /\ results' = res
        /\ nextToEmit' = n
        /\ progress' = [NoProgress EXCEPT
                          !.text = Trim(FilterJoin(res, total)),
                          !.completed = n, !.total = total]
        /\ StreamLoopFrom(sI + 1, res)
  /\ calls' = calls + 1
  /\ UNCHANGED <<model, total, backend, lastMeta, pending, emitted>>
  /\ UNCHANGED <<tOwn, uiVars, oVars, gVars, pVars, hVars, aVars>>

\* The response is OK and has a body (337-339); the "meta" event, which the
\* proxy writes before any content (server/index.js:366-368), is read
\* (354-356).
FetchOk(raw, echo) ==
  /\ sPc = "fetch"
  /\ sPc' = "read"
  /\ pending' = raw
  /\ lastMeta' = echo
  /\ UNCHANGED <<model, total, backend, results, nextToEmit, progress, calls,
                 returned, sI, emitted>>
  /\ UNCHANGED <<tOwn, uiVars, oVars, gVars, pVars, hVars, aVars>>

\* A "meta" event is read in the middle of the body (354-356); m is the
\* chunk index it carries, Null when it carries none.
StreamMeta(m) ==
  /\ sPc = "read"
  /\ lastMeta' = m
  /\ UNCHANGED <<model, total, backend, results, nextToEmit, progress, calls,
                 returned, sPc, sI, pending, emitted>>
  /\ UNCHANGED <<tOwn, uiVars, oVars, gVars, pVars, hVars, aVars>>

AttributedLocal(meta, i) == i

\* (lastMeta && typeof lastMeta.chunkIndex === 'number')
\*   ? lastMeta.chunkIndex : i   (361)
AttributedIndex(meta, i) == IF meta # Null THEN meta ELSE i

\* A content event carries the next n units of the text (358-371).
Delta(n) ==
  /\ sPc = "read"
  /\ n \in 1 .. Len(pending)
  /\ LET delta == SubSeq(pending, 1, n)
         idx == AttributedIndex(lastMeta, sI)
         existing == IF Truthy(results[idx]) THEN results[idx] ELSE <<>>
         cleanedBefore == stripPartHeader(existing)
         cleanedAfter == stripPartHeader(existing \o delta)
         deltaClean == Slice(cleanedAfter, Len(cleanedBefore))
         res == [results EXCEPT ![idx] = cleanedAfter]
     IN /\ results' = res
        /\ progress' = [text |-> Assembled(res),
                        completed |-> nextToEmit, total |-> total,
                        lastChunkIndex |-> idx, chunkDelta |-> deltaClean,
                        chunkContent |-> res[idx], isChunkFinal |-> FALSE]
        /\ emitted' = [emitted EXCEPT ![idx] = @ \o deltaClean]
  /\ pending' = Slice(pending, n)
  /\ calls' = calls + 1
  /\ UNCHANGED <<model, total, backend, nextToEmit, returned, sPc, sI,
                 lastMeta>>
  /\ UNCHANGED <<tOwn, uiVars, oVars, gVars, pVars, hVars, aVars>>

StreamDoneAnytime == pending = pending

\* const { value, done } = await reader.read(); if (done) break;  (341-342):
\* the stream is done when the body has no more content.
StreamDone == pending = <<>>

\* reader.read() reports done (342): the watermark is recomputed, the final
\* callback of the segment is made and the loop goes on (374-378).
StreamEnd ==
  /\ sPc = "read"
  /\ StreamDone
  /\ LET n == AdvanceWatermark(results, nextToEmit, <<>>).n
     IN /\ nextToEmit' = n
        /\ progress' = [text |-> Assembled(results),
                        completed |-> n, total |-> total,
                        lastChunkIndex |-> sI, chunkDelta |-> Undefined,
                        chunkContent |-> results[sI], isChunkFinal |-> TRUE]
  /\ StreamLoopFrom(sI + 1, results)
  /\ calls' = calls + 1
  /\ lastMeta' = Null
  /\ UNCHANGED <<model, total, backend, results, pending, emitted>>
  /\ UNCHANGED <<tOwn, uiVars, oVars, gVars, pVars, hVars, aVars>>

\* reader.read() rejects (the connection breaks while the body is read):
\* the await at 341 throws and nothing catches it.
ReadFailed ==
  /\ sPc = "read"
  /\ sPc' = "thrown"
  /\ UNCHANGED <<model, total, backend, results, nextToEmit, progress, calls,
                 returned, sI, lastMeta, pending, emitted>>
  /\ UNCHANGED <<tOwn, uiVars, oVars, gVars, pVars, hVars, aVars>>



(***************************************************************************)
(* computeOffsets (translationService.ts:70-83).  A text is a sequence of  *)
(* units: two letters, Tr(0) and Tr(1), and whitespace, NL2; CnHdr is a    *)
(* whole position marker "[这是第...]\n\n".                                  *)
(***************************************************************************)
CnHdr == [k |-> "cnhdr", n |-> 0]

Alphabet == { Tr(0), Tr(1), NL2 }

\* The texts of at most n units.
RECURSIVE TextsUpTo(_)
TextsUpTo(n) ==
  IF n = 0 THEN { <<>> }
  ELSE LET S == TextsUpTo(n - 1)
       IN S \cup { Append(t, c) : t \in S, c \in Alphabet }

\* The chunks computeOffsets may be given: a text, with or without a
\* position marker in front.
OffsetChunks ==
  LET B == TextsUpTo(MaxChunkLen) IN B \cup { <<CnHdr>> \o b : b \in B }

\* chunk.replace(/^\[这是第[\s\S]*?\]\n\n/, '')   (74)
StripCnHeader(chunk) ==
  IF chunk # <<>> /\ Head(chunk).k = "cnhdr" THEN Tail(chunk) ELSE chunk

IndexOfFromStart(s, probe, from) ==
  LET hits == { i \in 0 .. Len(s) - Len(probe) :
                  SubSeq(s, i + 1, i + Len(probe)) = probe }
  IN IF hits = {} THEN -1
     ELSE CHOOSE i \in hits : \A h \in hits : i <= h

\* s.indexOf(probe, from): the first position at or after "from" where
\* probe occurs in s, or -1.
IndexOf(s, probe, from) ==
  LET f == Min(from, Len(s))
      hits == { i \in f .. Len(s) - Len(probe) :
                  SubSeq(s, i + 1, i + Len(probe)) = probe }
  IN IF hits = {} THEN -1
     ELSE CHOOSE i \in hits : \A h \in hits : i <= h

OInit(texts, counts) ==
  /\ original \in texts
  /\ nChunks \in counts
  /\ ranges = <<>>
  /\ pos = 0
  /\ lastMarked = FALSE
  /\ lastLen = 0
  /\ oPc = "loop"

\* No computeOffsets call, for the other specifications.
OIdle == OInit({ <<>> }, {0})

\* cleaned.slice(0, Math.min(50, cleaned.length)).trim()   (75)
Probe(cleaned) == Trim(SubSeq(cleaned, 1, Min(ProbeLen, Len(cleaned))))

\* One iteration of "for (const chunk of chunks)"   (73-81)
OffsetStep(chunk) ==
  /\ oPc = "loop"
  /\ Len(ranges) < nChunks
  /\ LET cleaned == StripCnHeader(chunk)
         probe == Probe(cleaned)
         idx == IndexOf(original, probe, pos)
         start == IF idx >= 0 THEN idx ELSE pos
         end == Min(start + Len(cleaned), Len(original))
     IN /\ ranges' = Append(ranges, [start |-> start, end |-> end])
        /\ pos' = end
  /\ lastMarked' = (StripCnHeader(chunk) # chunk)
  /\ lastLen' = Len(StripCnHeader(chunk))
  /\ UNCHANGED <<original, nChunks, oPc>>
  /\ UNCHANGED <<tVars, uiVars, sVars, gVars, pVars, hVars, aVars>>

\* return ranges   (82)
OffsetsReturn ==
  /\ oPc = "loop"
  /\ Len(ranges) = nChunks
  /\ oPc' = "done"
  /\ UNCHANGED <<original, nChunks, ranges, pos, lastMarked, lastLen>>
  /\ UNCHANGED <<tVars, uiVars, sVars, gVars, pVars, hVars, aVars>>

(***************************************************************************)
(* The UI result store (unnamed/part_002).                                 *)
(*                                                                         *)
(* setOutputChunks and setChunkStates are given updater functions; React   *)
(* applies the queued updaters of a state in call order, each to the       *)
(* result of the one before.  An updater reads only its "prev" and         *)
(* chunkStatesRef.current, and the refs change only in the effects that    *)
(* run after a render (110, 116), so applying each updater when it is      *)
(* queued gives the states React computes.  outputChunks and chunkStates   *)
(* are these states; outputChunksRef and chunkStatesRef are the copies the *)
(* last render left.  selectedChunkIndex and inputRanges are cells no       *)
(* updater of the store reads; they are not modelled.                      *)
(***************************************************************************)
Slots == 0 .. uiTotal - 1

Count(states) == Cardinality({ i \in DOMAIN states : states[i] = "completed" })

\* setChunkContentAtomic (118-135), applied to the store st =
\* [chunks, states, completed].
setChunkContentAtomic(st, idx, content, final, stateOverride) ==
  LET states == [st.states EXCEPT ![idx] =
                   IF stateOverride # "none" THEN stateOverride
                   ELSE IF final THEN "completed" ELSE "streaming"]
  IN [chunks |-> IF chunkStatesRef[idx] = "completed" THEN st.chunks
                 ELSE [st.chunks EXCEPT ![idx] = content],
      states |-> states,
      completed |-> Count(states)]

\* The pieces of text a progress update may carry.
UiTexts == { <<Tr(0)>>, <<Tr(1)>> }
UiDeltas == { <<Tr(0)>>, <<Tr(1)>> }
UiContents == { <<Tr(0)>>, <<Tr(0), Tr(1)>> }

\* The stats the translators hand to onProgress:
\*  a non-final delta        (translateTextStream, 369)
\*  a segment's final content (translateTextStream, 378)
\*  a whole translation      (translateText, 218)
\*  a failed segment         (translateText, 234; translateTextStream, 334)
\* No translator sets isError.
UiStats ==
  LET base == [completed |-> 0, total |-> uiTotal, lastChunkIndex |-> -1,
               chunkDelta |-> Undefined, chunkContent |-> Undefined,
               isChunkFinal |-> FALSE, isError |-> FALSE]
  IN UNION { { [base EXCEPT !.completed = c] }
             \cup { [base EXCEPT !.completed = c, !.lastChunkIndex = idx,
                                 !.chunkDelta = d, !.chunkContent = x]
                    : idx \in Slots, d \in UiDeltas, x \in UiContents }
             \cup { [base EXCEPT !.completed = c, !.lastChunkIndex = idx,
                                 !.chunkContent = x, !.isChunkFinal = TRUE]
                    : idx \in Slots, x \in UiContents }
             \cup { [base EXCEPT !.completed = c, !.lastChunkIndex = idx,
                                 !.chunkDelta = d, !.chunkContent = d \o <<NL2>>,
                                 !.isChunkFinal = TRUE]
                    : idx \in Slots, d \in UiDeltas }
           : c \in 0 .. uiTotal }

\* handleTranslate has set up the store for a job of uiTotal segments
\* (146-178) and the translator is running.
UiInit(totals) ==
  /\ uiTotal \in totals
  /\ outputChunks = [i \in 0 .. uiTotal - 1 |-> <<>>]
  /\ outputChunksRef = [i \in 0 .. uiTotal - 1 |-> <<>>]
  /\ chunkStates = [i \in 0 .. uiTotal - 1 |-> "pending"]
  /\ chunkStatesRef = [i \in 0 .. uiTotal - 1 |-> "pending"]
  /\ completedChunks = 0
  /\ updates = 0
  /\ everCompleted = {}

\* The cells of the UI that tell which jobs run: a handleTranslate job
\* when "loading", no handleRetryAll job.
UiJob(loading) ==
  /\ isLoading = loading
  /\ isRetrying = FALSE
  /\ outputText = <<>>
  /\ lastCaller = "none"

\* handleTranslate's onProgress (186-216), called while its job runs.
OnProgress(text, stats) ==
  /\ isLoading
  /\ updates < MaxUpdates
  /\ updates' = updates + 1
  /\ outputText' = text
  /\ lastCaller' = "translate"
  /\ LET idx == stats.lastChunkIndex
         st0 == [chunks |-> outputChunks, states |-> chunkStates,
                 completed |-> stats.completed]
         st1 == IF idx >= 0 /\ stats.chunkDelta # Undefined
                THEN setChunkContentAtomic(st0, idx,
                       outputChunksRef[idx] \o stats.chunkDelta,
                       stats.isChunkFinal, "none")
                ELSE st0
         st2 == IF idx >= 0 /\ stats.chunkContent # Undefined
                THEN setChunkContentAtomic(st1, idx, stats.chunkContent,
                       stats.isChunkFinal,
                       IF stats.isError THEN "error"
                       ELSE IF stats.isChunkFinal THEN "completed"
                       ELSE "streaming")
                ELSE st1
     IN /\ outputChunks' = st2.chunks
        /\ chunkStates' = st2.states
        /\ completedChunks' = st2.completed
  /\ UNCHANGED <<uiTotal, outputChunksRef, chunkStatesRef, everCompleted,
                 isLoading, isRetrying>>
  /\ UNCHANGED <<tVars, sVars, oVars, gVars, pVars, hVars, aVars>>

\* React renders the queued updates and runs the effects that copy the
\* states into the refs (110, 116).
Render ==
  /\ <<outputChunksRef, chunkStatesRef>> # <<outputChunks, chunkStates>>
  /\ outputChunksRef' = outputChunks
  /\ chunkStatesRef' = chunkStates
  /\ everCompleted' =
       everCompleted \cup { i \in Slots : chunkStates[i] = "completed" }
  /\ UNCHANGED <<uiTotal, outputChunks, chunkStates, completedChunks, updates,
                 isLoading, isRetrying, outputText, lastCaller>>
  /\ UNCHANGED <<tVars, sVars, oVars, gVars, pVars, hVars, aVars>>

\* The Translate button is clicked (353-354: the button ignores clicks
\* while isLoading): handleTranslate resets the store for a new job on the
\* same input text and starts the translator (137-185).
HandleTranslate ==
  /\ ~isLoading
  /\ isLoading' = TRUE
  /\ outputText' = <<>>
  /\ completedChunks' = 0
  /\ outputChunks' = [i \in Slots |-> <<>>]
  /\ outputChunksRef' = [i \in Slots |-> <<>>]
  /\ chunkStates' = [i \in Slots |-> "pending"]
  /\ chunkStatesRef' = [i \in Slots |-> "pending"]
  /\ everCompleted' = {}
  /\ UNCHANGED <<uiTotal, updates, isRetrying, lastCaller>>
  /\ UNCHANGED <<tVars, sVars, oVars, gVars, pVars, hVars, aVars>>

\* handleTranslate's translator has returned or thrown: finally (230-232).
TranslateDone ==
  /\ isLoading
  /\ isLoading' = FALSE
  /\ UNCHANGED <<uiTotal, outputChunks, chunkStates, outputChunksRef,
                 chunkStatesRef, completedChunks, updates, everCompleted,
                 isRetrying, outputText, lastCaller>>
  /\ UNCHANGED <<tVars, sVars, oVars, gVars, pVars, hVars, aVars>>

\* "Retry all" is clicked: handleRetryAll starts the translator again on
\* the store as it is (235-253).
HandleRetryAll ==
  /\ ~(isRetrying \/ isLoading)
  /\ isRetrying' = TRUE
  /\ UNCHANGED <<uiTotal, outputChunks, chunkStates, outputChunksRef,
                 chunkStatesRef, completedChunks, updates, everCompleted,
                 isLoading, outputText, lastCaller>>
  /\ UNCHANGED <<tVars, sVars, oVars, gVars, pVars, hVars, aVars>>

\* handleRetryAll's onProgress (254-272), called while its job runs.  (The
\* callback of the degraded retry, 286-299, is this one without the
\* chunkDelta branch; it is not modelled.)
RetryProgress(text, stats) ==
  /\ isRetrying
  /\ updates < MaxUpdates
  /\ updates' = updates + 1
  /\ outputText' = text
  /\ lastCaller' = "retry"
  /\ LET idx == stats.lastChunkIndex
         st0 == [chunks |-> outputChunks, states |-> chunkStates,
                 completed |-> completedChunks]
         st1 == IF idx >= 0 /\ chunkStatesRef[idx] # "completed"
                THEN IF stats.chunkContent # Undefined
                     THEN setChunkContentAtomic(st0, idx, stats.chunkContent,
                            stats.isChunkFinal,
                            IF stats.isError THEN "error"
                            ELSE IF stats.isChunkFinal THEN "completed"
                            ELSE "streaming")
                     ELSE IF stats.chunkDelta # Undefined
                     THEN setChunkContentAtomic(st0, idx,
                            outputChunksRef[idx] \o stats.chunkDelta,
                            stats.isChunkFinal, "none")
                     ELSE st0
                ELSE st0
     IN /\ outputChunks' = st1.chunks
        /\ chunkStates' = st1.states
        /\ completedChunks' = stats.completed
  /\ UNCHANGED <<uiTotal, outputChunksRef, chunkStatesRef, everCompleted,
                 isLoading, isRetrying>>
  /\ UNCHANGED <<tVars, sVars, oVars, gVars, pVars, hVars, aVars>>

\* handleRetryAll's translator has returned or thrown: finally (316-318).
RetryDone ==
  /\ isRetrying
  /\ isRetrying' = FALSE
  /\ UNCHANGED <<uiTotal, outputChunks, chunkStates, outputChunksRef,
                 chunkStatesRef, completedChunks, updates, everCompleted,
                 isLoading, outputText, lastCaller>>
  /\ UNCHANGED <<tVars, sVars, oVars, gVars, pVars, hVars, aVars>>

(***************************************************************************)
(* The UI without per-segment states (src/App.tsx).  outputChunks is a     *)
(* JavaScript array: a function on 0 .. length - 1 whose holes are         *)
(* Undefined.  handleTranslate is the function the last render created, so *)
(* the totalChunks its onProgress closure reads is the state as it was     *)
(* rendered when the button was clicked.                                   *)
(***************************************************************************)
ArrLen(a) == Cardinality(DOMAIN a)

\* new Array(n).fill('')
Filled(n) == [i \in 0 .. n - 1 |-> <<>>]

\* next[idx] = v on a copy of the array
ArrSet(a, idx, v) ==
  [i \in 0 .. (IF idx + 1 > ArrLen(a) THEN idx + 1 ELSE ArrLen(a)) - 1 |->
     IF i = idx THEN v ELSE IF i \in DOMAIN a THEN a[i] ELSE Undefined]

\* prev.length === totalChunks && prev.length > 0 ? [...prev]
\*   : new Array(totalChunks || (stats.total || 0)).fill('')    (106, 117)
CopyOrReset(prev, stats) ==
  IF ArrLen(prev) = closureTotalChunks /\ ArrLen(prev) > 0 THEN prev
  ELSE Filled(IF closureTotalChunks # 0 THEN closureTotalChunks
              ELSE stats.total)

\* The stats the translators hand to onProgress in a job of n segments:
\* none about a segment, a delta, a segment's content.
AppStats(n) ==
  LET base == [total |-> n, lastChunkIndex |-> -1, chunkDelta |-> Undefined,
               chunkContent |-> Undefined]
  IN { base }
     \cup { [base EXCEPT !.lastChunkIndex = idx, !.chunkDelta = d]
            : idx \in 0 .. n - 1, d \in UiDeltas }
     \cup { [base EXCEPT !.lastChunkIndex = idx, !.chunkContent = x]
            : idx \in 0 .. n - 1, x \in UiContents }

\* The page has been loaded (25-27).
AInit ==
  /\ appOutputChunks = Filled(0)
  /\ appTotalChunks = 0
  /\ closureTotalChunks = 0
  /\ appLoading = FALSE
  /\ appUpdates = 0

AIdle == AInit

\* The Translate button is clicked on a text of n segments (61-97).
AppHandleTranslate(n) ==
  /\ ~appLoading
  /\ appLoading' = TRUE
  /\ closureTotalChunks' = appTotalChunks
  /\ appTotalChunks' = n
  /\ appOutputChunks' = Filled(n)
  /\ UNCHANGED appUpdates
  /\ UNCHANGED <<tVars, uiVars, sVars, oVars, gVars, pVars, hVars>>

\* handleTranslate's onProgress (98-129).
AppOnProgress(stats) ==
  /\ appLoading
  /\ appUpdates < MaxUpdates
  /\ appUpdates' = appUpdates + 1
  /\ appTotalChunks' = stats.total
  /\ LET idx == stats.lastChunkIndex
         a0 == appOutputChunks
         a1 == IF idx >= 0 /\ stats.chunkDelta # Undefined
               THEN LET next == CopyOrReset(a0, stats)
                        old == IF idx \in DOMAIN next /\ next[idx] # Undefined
                               THEN next[idx] ELSE <<>>
                    IN ArrSet(next, idx, old \o stats.chunkDelta)
               ELSE a0
         a2 == IF idx >= 0 /\ stats.chunkContent # Undefined
               THEN ArrSet(CopyOrReset(a1, stats), idx, stats.chunkContent)
               ELSE a1
     IN appOutputChunks' = a2
  /\ UNCHANGED <<closureTotalChunks, appLoading>>
  /\ UNCHANGED <<tVars, uiVars, sVars, oVars, gVars, pVars, hVars>>

\* The translator has returned or thrown: finally (137-139).
AppTranslateDone ==
  /\ appLoading
  /\ appLoading' = FALSE
  /\ UNCHANGED <<appOutputChunks, appTotalChunks, closureTotalChunks,
                 appUpdates>>
  /\ UNCHANGED <<tVars, uiVars, sVars, oVars, gVars, pVars, hVars>>

(***************************************************************************)
(* splitTextIntoChunks (src/services/translationService.ts): the version   *)
(* in use, 22-68, and the older version kept in the same file, 415-498.    *)
(* A text is a sequence of characters [c, p]: c is the character and p its *)
(* position in the input text, 0 for a character the function inserts.     *)
(* "a" stands for a character that is neither whitespace nor punctuation,  *)
(* "." for the end of a sentence.                                          *)
(***************************************************************************)
TextAlphabet == { "a", ".", " ", "\n" }

\* [。！？.!?]   (36, 440)
Terminators == { "." }

\* '，,。.！!？?;；:：'   (46, 453)
Punctuation == { ",", "." }

Positioned(str) ==
  IF Len(str) = 0 THEN <<>>
  ELSE [i \in 1 .. Len(str) |-> [c |-> str[i], p |-> i]]

\* The input texts of at most n characters.
InputTexts(n) ==
  { Positioned(str) : str \in UNION { [1 .. k -> TextAlphabet] : k \in 0 .. n } }

IsWhite(ch) == ch.c \in { " ", "\n" }

\* !s.trim()
IsBlank(s) == \A i \in 1 .. Len(s) : IsWhite(s[i])

\* '\n\n', as the function inserts it
Separator == << [c |-> "\n", p |-> 0], [c |-> "\n", p |-> 0] >>

\* The number of newlines in a row from position i on.
RECURSIVE NewlineRun(_, _)
NewlineRun(s, i) ==
  IF i <= Len(s) /\ s[i].c = "\n" THEN 1 + NewlineRun(s, i + 1) ELSE 0

\* The number of whitespace characters in a row from position i on.
RECURSIVE WhiteRun(_, _)
WhiteRun(s, i) ==
  IF i <= Len(s) /\ IsWhite(s[i]) THEN 1 + WhiteRun(s, i + 1) ELSE 0

\* text.split(/\n{2,}/)   (27)
RECURSIVE SplitParagraphsFrom(_, _, _)
SplitParagraphsFrom(s, i, cur) ==
  IF i > Len(s) THEN << cur >>
  ELSE IF NewlineRun(s, i) >= 2
         THEN << cur >> \o SplitParagraphsFrom(s, i + NewlineRun(s, i), <<>>)
         ELSE SplitParagraphsFrom(s, i + 1, Append(cur, s[i]))

\* paragraph.split(/(?<=[。！？.!?])\s+/)   (36)
RECURSIVE SplitSentencesFrom(_, _, _)
SplitSentencesFrom(s, i, cur) ==
  IF i > Len(s) THEN << cur >>
  ELSE IF i > 1 /\ s[i - 1].c \in Terminators /\ IsWhite(s[i])
         THEN << cur >> \o SplitSentencesFrom(s, i + WhiteRun(s, i), <<>>)
         ELSE SplitSentencesFrom(s, i + 1, Append(cur, s[i]))

AddPieceAndPush(st, piece, max) ==
  [current |-> <<>>,
   chunks |-> Append(st.chunks,
                     IF Len(st.current) = 0 THEN piece
                     ELSE st.current \o Separator \o piece)]

\* if (current.length === 0) current = piece; else current += '\n\n' + piece;
\* if (current.length >= maxChunkSize * 0.95) { chunks.push(current);
\* current = ''; }   (50-51, 56-57, 62-63)
AddPiece(st, piece, max) ==
  LET cur == IF Len(st.current) = 0 THEN piece
             ELSE st.current \o Separator \o piece
  IN IF Len(cur) * 100 >= max * 95
       THEN [current |-> <<>>, chunks |-> Append(st.chunks, cur)]
       ELSE [current |-> cur, chunks |-> st.chunks]

SplitPointAtSize(rest, max) == Min(Len(rest), max)

SplitPointNone(rest, max) == Min(Len(rest), max) - max

\* The split point of the hard split   (42-48)
SplitPoint(rest, max) ==
  LET size == Min(Len(rest), max)
      found == { i \in (size * 8) \div 10 .. size - 1 :
                   rest[i + 1].c \in Punctuation }
  IN IF size < Len(rest) /\ found # {}
       THEN 1 + (CHOOSE i \in found : \A j \in found : j <= i)
       ELSE size

RestAfterSkip(rest, splitPoint) == SubSeq(rest, splitPoint + 2, Len(rest))

\* rest.slice(splitPoint)   (52)
RestAfter(rest, splitPoint) == SubSeq(rest, splitPoint + 1, Len(rest))

\* while (rest.length > 0) { ... }   (41-53)
RECURSIVE HardSplit(_, _, _)
HardSplit(rest, st, max) ==
  IF Len(rest) = 0 THEN st
  ELSE LET splitPoint == SplitPoint(rest, max)
           piece == SubSeq(rest, 1, splitPoint)
       IN HardSplit(RestAfter(rest, splitPoint), AddPiece(st, piece, max), max)

\* for (const s of sentences) { ... }   (37-59)
RECURSIVE AddSentences(_, _, _, _)
AddSentences(sentences, k, st, max) ==
  IF k > Len(sentences) THEN st
  ELSE LET s == sentences[k]
       IN AddSentences(sentences, k + 1,
                       IF Len(s) > max THEN HardSplit(s, st, max)
                       ELSE AddPiece(st, s, max),
                       max)

\* for (const para of paragraphs) { ... }   (28-65)
RECURSIVE AddParagraphs(_, _, _, _)
AddParagraphs(paragraphs, k, st, max) ==
  IF k > Len(paragraphs) THEN st
  ELSE LET paragraph == paragraphs[k]
       IN AddParagraphs(paragraphs, k + 1,
            IF IsBlank(paragraph) THEN st
            ELSE IF Len(paragraph) > max
                   THEN AddSentences(SplitSentencesFrom(paragraph, 1, <<>>),
                                     1, st, max)
                   ELSE AddPiece(st, paragraph, max),
            max)

\* splitTextIntoChunks, the version in use   (22-68)
splitTextIntoChunks(txt, max) ==
  IF Len(txt) <= max THEN << txt >>
  ELSE LET st == AddParagraphs(SplitParagraphsFrom(txt, 1, <<>>), 1,
                               [current |-> <<>>, chunks |-> <<>>], max)
       IN IF Len(st.current) > 0 THEN Append(st.chunks, st.current)
          ELSE st.chunks

(***************************************************************************)
(* The older version   (415-498)                                           *)
(***************************************************************************)
\* s.split('\n')
RECURSIVE SplitLinesFrom(_, _, _)
SplitLinesFrom(s, i, cur) ==
  IF i > Len(s) THEN << cur >>
  ELSE IF s[i].c = "\n"
         THEN << cur >> \o SplitLinesFrom(s, i + 1, <<>>)
         ELSE SplitLinesFrom(s, i + 1, Append(cur, s[i]))

RECURSIVE TrimStart(_)
TrimStart(s) ==
  IF Len(s) > 0 /\ IsWhite(Head(s)) THEN TrimStart(Tail(s)) ELSE s

RECURSIVE TrimEnd(_)
TrimEnd(s) ==
  IF Len(s) > 0 /\ IsWhite(s[Len(s)])
    THEN TrimEnd(SubSeq(s, 1, Len(s) - 1)) ELSE s

\* text.split('\n').filter(line => line.trim() !== '').join('\n').trim()
\* and cleanText.split('\n')   (426-432)
OldParagraphs(txt) ==
  LET lines == SelectSeq(SplitLinesFrom(txt, 1, <<>>),
                         LAMBDA line : ~IsBlank(line))
      n == Len(lines)
  IN IF n = 0 THEN << <<>> >>
     ELSE [k \in 1 .. n |->
             LET l1 == IF k = 1 THEN TrimStart(lines[k]) ELSE lines[k]
             IN IF k = n THEN TrimEnd(l1) ELSE l1]

\* paragraph.split(/(?<=[。！？.!?])/)   (440)
RECURSIVE OldSplitSentencesFrom(_, _, _)
OldSplitSentencesFrom(s, i, cur) ==
  IF i > Len(s) THEN (IF Len(cur) = 0 THEN <<>> ELSE << cur >>)
  ELSE IF s[i].c \in Terminators
         THEN << Append(cur, s[i]) >> \o OldSplitSentencesFrom(s, i + 1, <<>>)
         ELSE OldSplitSentencesFrom(s, i + 1, Append(cur, s[i]))

\* The split point of the older hard split   (447-458)
OldSplitPoint(rest, max) ==
  LET chunkSize == Min(Len(rest), max)
      found == { i \in 0 .. chunkSize - 1 :
                   i * 10 >= chunkSize * 8 /\ rest[i + 1].c \in Punctuation }
  IN IF chunkSize < Len(rest) /\ found # {}
       THEN 1 + (CHOOSE i \in found : \A j \in found : j <= i)
       ELSE chunkSize

\* while (remainingSentence.length > 0) { chunks.push(...); ... }   (446-461)
RECURSIVE OldHardSplit(_, _, _)
OldHardSplit(rest, st, max) ==
  IF Len(rest) = 0 THEN st
  ELSE LET splitPoint == OldSplitPoint(rest, max)
       IN OldHardSplit(SubSeq(rest, splitPoint + 1, Len(rest)),
                       [st EXCEPT !.chunks =
                          Append(@, SubSeq(rest, 1, splitPoint))],
                       max)

\* for (const sentence of sentences) { ... }   (442-470)
RECURSIVE OldAddSentences(_, _, _, _)
OldAddSentences(sentences, k, st, max) ==
  IF k > Len(sentences) THEN st
  ELSE LET sentence == sentences[k]
       IN OldAddSentences(sentences, k + 1,
            IF Len(sentence) > max THEN OldHardSplit(sentence, st, max)
            ELSE IF Len(st.current) + Len(sentence) > max
                    /\ Len(st.current) > 0
                   THEN [current |-> sentence,
                         chunks |-> Append(st.chunks, st.current)]
                   ELSE [st EXCEPT !.current = @ \o sentence],
            max)

\* for (const paragraph of paragraphs) { ... }   (434-483)
RECURSIVE OldAddParagraphs(_, _, _, _)
OldAddParagraphs(paragraphs, k, st, max) ==
  IF k > Len(paragraphs) THEN st
  ELSE LET paragraph == paragraphs[k]
       IN OldAddParagraphs(paragraphs, k + 1,
            IF IsBlank(paragraph) THEN st
            ELSE IF Len(paragraph) > max
                   THEN OldAddSentences(
                          OldSplitSentencesFrom(paragraph, 1, <<>>), 1, st, max)
            ELSE IF Len(st.current) + Len(paragraph) + 2 > max
                    /\ Len(st.current) > 0
                   THEN [current |-> paragraph,
                         chunks |-> Append(st.chunks, st.current)]
            ELSE IF Len(st.current) > 0
                   THEN [st EXCEPT !.current = @ \o Separator \o paragraph]
                   ELSE [st EXCEPT !.current = paragraph],
            max)

DigitChars == << "0", "1", "2", "3", "4", "5", "6", "7", "8", "9" >>

\* `${n}`
RECURSIVE Decimal(_)
Decimal(n) ==
  IF n < 10 THEN << [c |-> DigitChars[n + 1], p |-> 0] >>
  ELSE Append(Decimal(n \div 10), [c |-> DigitChars[(n % 10) + 1], p |-> 0])

\* `[这是第 ${index + 1} 部分，共 ${chunks.length} 部分]\n\n`   (494): the
\* fixed parts of the marker are one character each.
ContextInfo(index, count) ==
  << [c |-> "[zhe shi di ", p |-> 0] >> \o Decimal(index + 1)
    \o << [c |-> " bu fen, gong ", p |-> 0] >> \o Decimal(count)
    \o << [c |-> " bu fen]", p |-> 0] >> \o Separator

\* splitTextIntoChunks, the older version   (415-498)
oldSplitTextIntoChunks(txt, max) ==
  IF Len(txt) <= max THEN << txt >>
  ELSE LET st == OldAddParagraphs(OldParagraphs(txt), 1,
                                  [current |-> <<>>, chunks |-> <<>>], max)
           chunks == IF Len(st.current) > 0
                       THEN Append(st.chunks, st.current) ELSE st.chunks
       IN IF Len(chunks) = 0 THEN <<>>
          ELSE [index \in 1 .. Len(chunks) |->
                  IF Len(chunks) > 1
                    THEN ContextInfo(index - 1, Len(chunks)) \o chunks[index]
                    ELSE chunks[index]]

GInit(texts, sizes) ==
  /\ inputText \in texts
  /\ maxChunkSize \in sizes
  /\ splitChunks = <<>>
  /\ splitPc = "ready"

\* No splitTextIntoChunks call, for the other specifications.
GIdle == GInit({ <<>> }, {1})

\* A call of the version in use.
SplitCurrent ==
  /\ splitPc = "ready"
  /\ splitChunks' = splitTextIntoChunks(inputText, maxChunkSize)
  /\ splitPc' = "current"
  /\ UNCHANGED <<inputText, maxChunkSize>>
  /\ UNCHANGED <<tVars, uiVars, sVars, oVars, pVars, hVars, aVars>>

\* A call of the older version.
SplitOld ==
  /\ splitPc = "ready"
  /\ splitChunks' = oldSplitTextIntoChunks(inputText, maxChunkSize)
  /\ splitPc' = "old"
  /\ UNCHANGED <<inputText, maxChunkSize>>
  /\ UNCHANGED <<tVars, uiVars, sVars, oVars, pVars, hVars, aVars>>

(***************************************************************************)
(* The proxy (server/index.js): the three endpoints that answer with one   *)
(* JSON response (87-139, 178-232, 271-324) and the three that stream      *)
(* (354-396, 398-439, 441-483).  The handlers of the three providers       *)
(* differ in the upstream address and headers only.  A request body is a   *)
(* record of its keys; the value Absent stands for a key that is not       *)
(* there.  A token is a string; "" stands for the falsy values.            *)
(***************************************************************************)
Absent == "absent"

Providers == { "openai", "deepseek", "anthropic" }

MetaTokens == { "", "tok0", "tok1" }

ProxyRequests ==
  [ provider : Providers,
    streaming : BOOLEAN,
    apikey : BOOLEAN,
    body : [ messages : { "msgs" },
             stream : { Absent, "true" },
             meta : MetaTokens \cup { Absent } ] ]

\* JavaScript truthiness of req.body.__meta
MetaTruthy(m) == m # Absent /\ m # ""

\* const { __meta, ...forwardBody } = req.body || {}   (99, 366)
ForwardBody(body) == [body EXCEPT !.meta = Absent]

\* clientMeta: __meta || null   (116)
ClientMeta(m) == IF MetaTruthy(m) THEN m ELSE "null"

NoResponse == [status |-> 0, success |-> FALSE, clientMeta |-> Absent]

NotForwarded ==
  [sent |-> FALSE,
   body |-> [messages |-> Absent, stream |-> Absent, meta |-> Absent]]

\* `event: meta\ndata: ${JSON.stringify({ clientMeta: __meta })}\n\n`  (368)
MetaEvent(m) == [event |-> "meta", data |-> m]

\* `event: error\ndata: ...\n\n`   (359, 382, 393)
ErrorEvent(code) == [event |-> "error", data |-> code]

\* What upstream sends, written through as it comes   (389)
ContentEvent == [event |-> "content", data |-> "delta"]

PInit(requests) ==
  /\ pReq \in requests
  /\ pForwarded = NotForwarded
  /\ pResp = NoResponse
  /\ pEvents = <<>>
  /\ pPc = "received"

\* No request to the proxy, for the other specifications.
PIdle ==
  PInit({ [provider |-> "openai", streaming |-> FALSE, apikey |-> FALSE,
           body |-> [messages |-> "msgs", stream |-> Absent,
                     meta |-> Absent]] })

\* A non-streaming endpoint up to its axios.post   (88-106)
JsonReceive ==
  /\ pPc = "received"
  /\ ~pReq.streaming
  /\ IF ~pReq.apikey
     THEN /\ pResp' = [status |-> 401, success |-> FALSE,
                       clientMeta |-> Absent]
          /\ pPc' = "done"
          /\ UNCHANGED pForwarded
     ELSE /\ pForwarded' = [sent |-> TRUE, body |-> ForwardBody(pReq.body)]
          /\ pPc' = "upstream"
          /\ UNCHANGED pResp
  /\ UNCHANGED <<pReq, pEvents>>
  /\ UNCHANGED <<tVars, uiVars, sVars, oVars, gVars, hVars, aVars>>

\* axios.post resolves: res.json({ success: true, data: responseData })
\* (108-123)
JsonUpstreamOk ==
  /\ pPc = "upstream"
  /\ ~pReq.streaming
  /\ pResp' = [status |-> 200, success |-> TRUE,
               clientMeta |-> ClientMeta(pReq.body.meta)]
  /\ pPc' = "done"
  /\ UNCHANGED <<pReq, pForwarded, pEvents>>
  /\ UNCHANGED <<tVars, uiVars, sVars, oVars, gVars, hVars, aVars>>

\* axios.post rejects: res.status(error.response?.status || 500).json(...)
\* (124-138)
JsonUpstreamFailed(status) ==
  /\ pPc = "upstream"
  /\ ~pReq.streaming
  /\ pResp' = [status |-> status, success |-> FALSE, clientMeta |-> Absent]
  /\ pPc' = "done"
  /\ UNCHANGED <<pReq, pForwarded, pEvents>>
  /\ UNCHANGED <<tVars, uiVars, sVars, oVars, gVars, hVars, aVars>>

\* A streaming endpoint up to its fetch   (355-378)
StreamReceive ==
  /\ pPc = "received"
  /\ pReq.streaming
  /\ IF ~pReq.apikey
     THEN /\ pResp' = [status |-> 401, success |-> FALSE,
                       clientMeta |-> Absent]
          /\ pEvents' = << ErrorEvent("AUTH_ERROR") >>
          /\ pPc' = "done"
          /\ UNCHANGED pForwarded
     ELSE /\ pEvents' = IF MetaTruthy(pReq.body.meta)
                          THEN << MetaEvent(pReq.body.meta) >> ELSE <<>>
          /\ pForwarded' =
               [sent |-> TRUE,
                body |-> [ForwardBody(pReq.body) EXCEPT !.stream = "true"]]
          /\ pPc' = "upstream"
          /\ UNCHANGED pResp
  /\ UNCHANGED pReq
  /\ UNCHANGED <<tVars, uiVars, sVars, oVars, gVars, hVars, aVars>>

\* fetch resolves with a response that is not ok (379-384), or rejects
\* (392-395)
StreamUpstreamFailed ==
  /\ pPc = "upstream"
  /\ pReq.streaming
  /\ pEvents' = Append(pEvents, ErrorEvent("API_ERROR"))
  /\ pResp' = [pResp EXCEPT !.status = 200]
  /\ pPc' = "done"
  /\ UNCHANGED <<pReq, pForwarded>>
  /\ UNCHANGED <<tVars, uiVars, sVars, oVars, gVars, hVars, aVars>>

\* fetch resolves with an ok response: upstream.body.getReader()   (385)
StreamUpstreamOk ==
  /\ pPc = "upstream"
  /\ pReq.streaming
  /\ pResp' = [pResp EXCEPT !.status = 200]
  /\ pPc' = "piping"
  /\ UNCHANGED <<pReq, pForwarded, pEvents>>
  /\ UNCHANGED <<tVars, uiVars, sVars, oVars, gVars, hVars, aVars>>

\* res.write(Buffer.from(value))   (387-389)
PipeChunk ==
  /\ pPc = "piping"
  /\ Len(pEvents) < MaxPiped + 1
  /\ pEvents' = Append(pEvents, ContentEvent)
  /\ UNCHANGED <<pReq, pForwarded, pResp, pPc>>
  /\ UNCHANGED <<tVars, uiVars, sVars, oVars, gVars, hVars, aVars>>

\* if (done) break; res.end()   (388, 391)
PipeEnd ==
  /\ pPc = "piping"
  /\ pPc' = "done"
  /\ UNCHANGED <<pReq, pForwarded, pResp, pEvents>>
  /\ UNCHANGED <<tVars, uiVars, sVars, oVars, gVars, hVars, aVars>>

\* reader.read() rejects: the catch writes an error event   (392-395)
PipeFailed ==
  /\ pPc = "piping"
  /\ pEvents' = Append(pEvents, ErrorEvent("API_ERROR"))
  /\ pPc' = "done"
  /\ UNCHANGED <<pReq, pForwarded, pResp>>
  /\ UNCHANGED <<tVars, uiVars, sVars, oVars, gVars, hVars, aVars>>

(***************************************************************************)
(* The hard split of splitTextIntoChunks, one iteration of its while loop  *)
(* at a time (40-53; the older version 445-461).  A sentence here holds    *)
(* letters and commas: what the sentence split leaves in one piece.        *)
(***************************************************************************)
HardAlphabet == { "a", "," }

\* The sentences of at most n characters that are longer than max.
LongSentences(n, max) ==
  { Positioned(str) :
      str \in UNION { [1 .. k -> HardAlphabet] : k \in max + 1 .. n } }

HInit(versions, sizes) ==
  /\ hVersion \in versions
  /\ hMax \in sizes
  /\ hSentence \in LongSentences(MaxSentenceLen, hMax)
  /\ hRest = hSentence
  /\ hPieces = <<>>
  /\ hPc = "loop"

\* No hard split, for the other specifications.
HIdle ==
  /\ hVersion = "none"
  /\ hMax = 1
  /\ hSentence = <<>>
  /\ hRest = <<>>
  /\ hPieces = <<>>
  /\ hPc = "loop"

\* One iteration of "while (rest.length > 0)"   (41-53)
HardSplitStep ==
  /\ hPc = "loop"
  /\ hVersion = "current"
  /\ Len(hRest) > 0
  /\ LET splitPoint == SplitPoint(hRest, hMax)
         piece == SubSeq(hRest, 1, splitPoint)
     IN /\ hPieces' = Append(hPieces, piece)
        /\ hRest' = RestAfter(hRest, splitPoint)
  /\ UNCHANGED <<hVersion, hMax, hSentence, hPc>>
  /\ UNCHANGED <<tVars, uiVars, sVars, oVars, gVars, pVars, aVars>>

\* One iteration of "while (remainingSentence.length > 0)"   (446-461)
OldHardSplitStep ==
  /\ hPc = "loop"
  /\ hVersion = "old"
  /\ Len(hRest) > 0
  /\ LET splitPoint == OldSplitPoint(hRest, hMax)
     IN /\ hPieces' = Append(hPieces, SubSeq(hRest, 1, splitPoint))
        /\ hRest' = SubSeq(hRest, splitPoint + 1, Len(hRest))
  /\ UNCHANGED <<hVersion, hMax, hSentence, hPc>>
  /\ UNCHANGED <<tVars, uiVars, sVars, oVars, gVars, pVars, aVars>>

\* The loop test fails: the remainder is empty   (41, 446)
HardSplitExit ==
  /\ hPc = "loop"
  /\ hVersion \in { "current", "old" }
  /\ Len(hRest) = 0
  /\ hPc' = "done"
  /\ UNCHANGED <<hVersion, hMax, hSentence, hRest, hPieces>>
  /\ UNCHANGED <<tVars, uiVars, sVars, oVars, gVars, pVars, aVars>>

(***************************************************************************)
(* Specifications.                                                         *)
(***************************************************************************)
\* The UI store at rest, for the specifications of the translators.
UiIdle == UiInit({0}) /\ UiJob(FALSE)
\* No translateText job, for the specification of the UI.
TIdle == TInit({"proxy"}, {0}) /\ model = "gpt-4o"

Init == TInit({"proxy"}, 0 .. MaxTotal) /\ UiIdle /\ SInit /\ OIdle /\ GIdle /\ PIdle /\ HIdle /\ AIdle

Next ==
  \/ Start
  \/ BatchDone
  \/ \E j \in Chunks : \E p \in Payloads(j) : \E echo \in EchoedIndex(j) :
       Success(j, p, echo)
  \/ \E j \in Chunks : \E e \in Errors : Failure(j, e)
  \/ \E j \in Chunks : BackoffDone(j)

\* translateText served by the repository's proxy.
Spec == Init /\ [][Next]_vars

InitAny == TInit({"any"}, 0 .. MaxTotalAny) /\ UiIdle /\ SInit /\ OIdle /\ GIdle /\ PIdle /\ HIdle /\ AIdle

\* translateText served by a backend that may echo any index.
SpecAnyBackend == InitAny /\ [][Next]_vars

InitUI == UiInit(1 .. MaxUiTotal) /\ UiJob(TRUE) /\ TIdle /\ SInit /\ OIdle /\ GIdle /\ PIdle /\ HIdle /\ AIdle

NextUI ==
  \/ \E text \in UiTexts : \E stats \in UiStats : OnProgress(text, stats)
  \/ Render

\* The UI result store under the progress updates of one job.
SpecUI == InitUI /\ [][NextUI]_vars

\* The UI with the store of an earlier job whose translator has ended
\* before any segment settled.
InitJobs == UiInit(1 .. MaxUiTotal) /\ UiJob(FALSE) /\ TIdle /\ SInit /\ OIdle /\ GIdle /\ PIdle /\ HIdle /\ AIdle

NextJobs ==
  \/ HandleTranslate
  \/ TranslateDone
  \/ HandleRetryAll
  \/ RetryDone
  \/ \E text \in UiTexts : \E stats \in UiStats : OnProgress(text, stats)
  \/ \E text \in UiTexts : \E stats \in UiStats : RetryProgress(text, stats)
  \/ Render

\* The UI with its two kinds of job, started and ended at any time.
SpecJobs == InitJobs /\ [][NextJobs]_vars

InitOffsets ==
  /\ OInit(TextsUpTo(MaxOrigLen), 0 .. MaxChunks)
  /\ TIdle /\ UiIdle /\ SInit /\ GIdle /\ PIdle /\ HIdle /\ AIdle

NextOffsets ==
  \/ \E chunk \in OffsetChunks : OffsetStep(chunk)
  \/ OffsetsReturn

\* computeOffsets on every original text and every sequence of chunks.
SpecOffsets == InitOffsets /\ [][NextOffsets]_vars

InitStream == TInit({"proxy"}, 0 .. MaxStreamTotal) /\ UiIdle /\ SInit /\ OIdle /\ GIdle /\ PIdle /\ HIdle /\ AIdle

NextStream ==
  \/ StreamStart
  \/ FetchRejected
  \/ \E kind \in {"notOk", "noBody"} : FetchNotOk(kind)
  \/ \E raw \in RawTexts(sI) : \E echo \in EchoedIndex(sI) : FetchOk(raw, echo)
  \/ \E n \in 1 .. Len(pending) : Delta(n)
  \/ StreamEnd
  \/ ReadFailed

\* translateTextStream served by the repository's proxy.
SpecStream == InitStream /\ [][NextStream]_vars

InitSplit ==
  /\ GInit(InputTexts(MaxTextLen), 1 .. MaxSize)
  /\ TIdle /\ UiIdle /\ SInit /\ OIdle /\ PIdle /\ HIdle /\ AIdle

NextSplit ==
  \/ SplitCurrent
  \/ SplitOld

\* splitTextIntoChunks, in its two versions, on every text and size.
SpecSplit == InitSplit /\ [][NextSplit]_vars

\* A model name the code does not know.
UnknownModel == "gpt-3.5"

InitModels ==
  /\ TInitModels(Models \cup { UnknownModel }, {"proxy"}, 0 .. MaxTotalAny)
  /\ UiIdle /\ SInit /\ OIdle /\ GIdle /\ PIdle /\ HIdle /\ AIdle

NextModels ==
  \/ Start
  \/ BatchDone
  \/ \E j \in Chunks : \E p \in Payloads(j) : \E echo \in EchoedIndex(j) :
       Success(j, p, echo)
  \/ \E j \in Chunks : \E e \in Errors : Failure(j, e)
  \/ \E j \in Chunks : BackoffDone(j)
  \/ StreamStart
  \/ FetchRejected
  \/ \E kind \in {"notOk", "noBody"} : FetchNotOk(kind)
  \/ \E raw \in RawTexts(sI) : \E echo \in EchoedIndex(sI) : FetchOk(raw, echo)
  \/ \E n \in 1 .. Len(pending) : Delta(n)
  \/ StreamEnd
  \/ ReadFailed

\* A job of translateText or of translateTextStream with any model name.
SpecModels == InitModels /\ [][NextModels]_vars

\* The texts a stream carries when no position marker is in play.
PlainTexts(j) == { <<>>, <<Tr(j), Tr(j)>> }

InitStreamAny ==
  TInit({"any"}, 0 .. MaxTotalAny) /\ UiIdle /\ SInit /\ OIdle /\ GIdle /\ PIdle /\ HIdle /\ AIdle

NextStreamAny ==
  \/ StreamStart
  \/ FetchRejected
  \/ \E kind \in {"notOk", "noBody"} : FetchNotOk(kind)
  \/ \E raw \in PlainTexts(sI) : \E echo \in Chunks \cup { Null } :
       FetchOk(raw, echo)
  \/ \E m \in Chunks \cup { Null } : StreamMeta(m)
  \/ \E n \in 1 .. Len(pending) : Delta(n)
  \/ StreamEnd
  \/ ReadFailed

\* translateTextStream served by a backend that may send meta events with
\* any index, at any point of a stream, or none.
SpecStreamAny == InitStreamAny /\ [][NextStreamAny]_vars

InitResponses ==
  /\ TInit({"proxy"}, 0 .. MaxTotalAny)
  /\ UiIdle /\ SInit /\ OIdle /\ GIdle /\ PIdle /\ HIdle /\ AIdle

NextResponses ==
  \/ Start
  \/ BatchDone
  \/ \E j \in Chunks : \E r \in ResponseShapes : \E p \in Payloads(j) :
       \E echo \in EchoedIndex(j) : Response(j, r, p, echo)
  \/ \E j \in Chunks : \E e \in Errors : Failure(j, e)
  \/ \E j \in Chunks : BackoffDone(j)

\* translateText with responses of every shape.
SpecResponses == InitResponses /\ [][NextResponses]_vars

InitCallbacks ==
  /\ TInit({"proxy"}, 0 .. MaxTotalAny)
  /\ UiIdle /\ SInit /\ OIdle /\ GIdle /\ PIdle /\ HIdle /\ AIdle

NextCallbacks ==
  \/ Start
  \/ BatchDone
  \/ \E j \in Chunks : \E p \in Payloads(j) : \E echo \in EchoedIndex(j) :
       Success(j, p, echo)
  \/ \E j \in Chunks : \E p \in Payloads(j) : \E echo \in EchoedIndex(j) :
       \E e \in Errors : SuccessCallbackThrows(j, p, echo, e)
  \/ \E j \in Chunks : \E e \in Errors : Failure(j, e)
  \/ \E j \in Chunks : BackoffDone(j)

\* translateText with a progress callback that may throw.
SpecCallbacks == InitCallbacks /\ [][NextCallbacks]_vars

InitProxy ==
  /\ PInit(ProxyRequests)
  /\ TIdle /\ UiIdle /\ SInit /\ OIdle /\ GIdle /\ HIdle /\ AIdle

NextProxy ==
  \/ JsonReceive
  \/ JsonUpstreamOk
  \/ \E status \in { 401, 429, 500 } : JsonUpstreamFailed(status)
  \/ StreamReceive
  \/ StreamUpstreamFailed
  \/ StreamUpstreamOk
  \/ PipeChunk
  \/ PipeEnd
  \/ PipeFailed

\* The proxy answering one request.
SpecProxy == InitProxy /\ [][NextProxy]_vars

InitApp ==
  /\ AInit
  /\ TIdle /\ UiIdle /\ SInit /\ OIdle /\ GIdle /\ PIdle /\ HIdle

NextApp ==
  \/ \E n \in 1 .. MaxUiTotal : AppHandleTranslate(n)
  \/ \E stats \in AppStats(appTotalChunks) : AppOnProgress(stats)
  \/ AppTranslateDone

\* The UI of src/App.tsx from the page load on.
SpecApp == InitApp /\ [][NextApp]_vars

InitHardSplit ==
  /\ HInit({ "current", "old" }, 1 .. MaxWindow)
  /\ TIdle /\ UiIdle /\ SInit /\ OIdle /\ GIdle /\ PIdle /\ AIdle

NextHardSplit ==
  \/ HardSplitStep
  \/ OldHardSplitStep
  \/ HardSplitExit

\* The hard split of a sentence longer than the size, in both versions.
SpecHardSplit == InitHardSplit /\ [][NextHardSplit]_vars

\* The same, the loop going on as long as it can.
SpecHardSplitFair == SpecHardSplit /\ WF_vars(NextHardSplit)

(***************************************************************************)
(* Claims.                                                                 *)
(***************************************************************************)

\* C1: in the UI result store, once slot idx has been in state 'completed'
\* (rendered so), its stored content never changes again within the job,
\* whatever progress updates follow.
C1_CompletedContentFrozen ==
  [][\A i \in Slots :
       i \in everCompleted => outputChunks'[i] = outputChunks[i]]_vars

\* C2: in the UI result store, after slot idx is 'completed' no later
\* setChunkContentAtomic call changes its state to 'pending', 'streaming'
\* or 'error'.
C2_CompletedStateIrreversible ==
  [][\A i \in Slots :
       (i \in everCompleted /\ chunkStates[i] = "completed")
         => chunkStates'[i] = "completed"]_vars

\* C3: whatever index the backend echoes, a slot of results that already
\* holds a settled result (a final translation or an error placeholder) is
\* never written again during the job.
C3_SettledSlotNotRewritten ==
  [][\A i \in Chunks :
       IsDefined(results[i]) => results'[i] = results[i]]_vars

RECURSIVE Concat(_, _)
\* results[0] + ... + results[n-1]
Concat(res, n) == IF n = 0 THEN <<>> ELSE Concat(res, n - 1) \o res[n - 1]

Tokens(text) == { text[x] : x \in DOMAIN text }

WatermarkInv ==
  /\ nextToEmit \in 0 .. total
  /\ \A i \in Chunks : i < nextToEmit => IsDefined(results[i]) /\ Settled(i)
  /\ translatedText = Concat(results, nextToEmit)
  /\ calls > 0 =>
       /\ progress.text = Trim(Concat(results, nextToEmit))
       /\ progress.completed = nextToEmit
       /\ \A j \in Chunks :
            (Tr(j) \in Tokens(progress.text)
               \/ ErrMark(j) \in Tokens(progress.text))
              => \A k \in 0 .. j : Settled(k)

\* C4: in translateText the watermark nextToEmit never decreases, every
\* slot below it is settled, and the joined text handed to the progress
\* callback is the (trimmed) concatenation, in index order, of the slots
\* 0..nextToEmit-1; a segment that settles before a lower-index segment is
\* not in the joined text until all lower-index segments have settled.
C4_Watermark ==
  [][nextToEmit' >= nextToEmit /\ WatermarkInv']_vars

\* A segment above the watermark has settled while a lower one has not, and
\* a progress callback has been made.
C4_Witness ==
  /\ calls > 0
  /\ \E j \in Chunks : j > nextToEmit /\ chunkPc[j] = "ok"
                       /\ progress.lastChunkIndex = j

RECURSIVE ExpectedText(_)
\* Tr(0) "\n\n" Tr(1) "\n\n" ... Tr(n-1)
ExpectedText(n) ==
  IF n = 0 THEN <<>>
  ELSE IF n = 1 THEN <<Tr(0)>>
  ELSE ExpectedText(n - 1) \o <<NL2, Tr(n - 1)>>

\* C5: whatever the order of the responses inside each batch, when every
\* segment's request succeeds translateText returns the segments'
\* translations in index order, separated by a double newline.
C5_JoinedInOrder ==
  (jobPc = "returned" /\ \A j \in Chunks : chunkPc[j] = "ok")
    => returned = ExpectedText(total)

\* A job of three segments in one batch has returned, all translated, and
\* segment 0 was the last to settle.
C5_Witness ==
  /\ jobPc = "returned" /\ total = 3 /\ model = "gpt-4o"
  /\ \A j \in Chunks : chunkPc[j] = "ok"
  /\ progress.lastChunkIndex = 0

BatchNo(j) == j \div (IF model = "deepseek-v3" THEN 2 ELSE 3)

\* C6: no request of a segment of a later batch is issued before every
\* segment of each earlier batch has settled, also while a member of the
\* earlier batch waits in a retry backoff.
C6_BatchBarrier ==
  \A j, k \in Chunks :
    (BatchNo(k) < BatchNo(j) /\ chunkPc[j] # "idle") => Settled(k)

\* A member of a batch waits in a backoff, all others of its batch have
\* settled, and the next batch has not been dispatched.
C6_Witness ==
  \E k \in Chunks :
    /\ chunkPc[k] = "backoff"
    /\ \A j \in Batch(batchStart) \ {k} : Settled(j)
    /\ Batch(batchStart) # {k}
    /\ \E j \in Chunks : BatchNo(j) > BatchNo(k) /\ chunkPc[j] = "idle"

InFlight == { j \in Chunks : chunkPc[j] = "request" }

\* C7: at every moment of a translateText job at most 2 (deepseek-v3) or 3
\* (any other model) segment requests are in flight, retries included.
C7_Concurrency ==
  Cardinality(InFlight) <= (IF model = "deepseek-v3" THEN 2 ELSE 3)

\* The limit binds: it is reached, by retried requests, while a segment
\* still waits to be dispatched.
C7_Witness ==
  /\ Cardinality(InFlight) = (IF model = "deepseek-v3" THEN 2 ELSE 3)
  /\ \A j \in InFlight : retryCount[j] > 0
  /\ \E j \in Chunks : chunkPc[j] = "idle"

\* C8: a segment whose every attempt fails is attempted exactly
\* maxRetries+1 = 4 times; it is then settled as an error (the placeholder
\* in its slot, one entry in the error list) and never requested again.
C8_ExhaustedAfterFourAttempts ==
  (total > 0 /\ chunkPc[watched] = "failed") =>
    /\ attempts = 4
    /\ results[watched] = <<ErrMark(watched), NL2>>
    /\ Cardinality({ x \in DOMAIN translationErrors :
                       translationErrors[x].chunkIndex = watched }) = 1

\* The watched segment failed and the job went on to its end.
C8_Witness ==
  /\ total > 1 /\ chunkPc[watched] = "failed" /\ jobPc = "returned"

\* C9: a segment whose first k attempts fail with a transient error
\* (timeout, connection refused, connection reset) and whose next attempt
\* succeeds ends Completed after exactly k retries and exactly k backoff
\* waits, and has no entry in the error list.
C9_TransientRetries ==
  [][(total > 0 /\ chunkPc[watched] = "request"
        /\ chunkPc'[watched] = "ok" /\ onlyNetwork)
       => /\ retryCount[watched] = attempts - 1
          /\ waits = attempts - 1
          /\ \A x \in DOMAIN translationErrors' :
               translationErrors'[x].chunkIndex # watched]_vars

\* C10: a failed attempt of each of the network-level kinds timeout,
\* connection refused, connection reset is classified transient: when retry
\* budget remains it is followed by a wait of retryDelay before the next
\* attempt.
C10_NetworkErrorsWait ==
  [][\A j \in Chunks : \A e \in Errors :
       (e.kind \in NetworkKinds /\ retryCount[j] < maxRetries
          /\ Failure(j, e))
         => chunkPc'[j] = "backoff"]_vars

\* The entries of the error list that name segment j.
ErrorEntries(j) ==
  { x \in DOMAIN translationErrors : translationErrors[x].chunkIndex = j }

\* C11: in translateText a segment that exhausted its retries has the
\* placeholder with its 1-based number in its own slot and exactly one
\* entry in the error list; every segment that succeeded has its own
\* translation in its own slot and no entry; and the job ends only after
\* every segment, of every batch, has been requested and settled.
C11_ExhaustedSegmentIsolated ==
  /\ \A j \in Chunks :
       /\ chunkPc[j] = "failed" =>
            /\ results[j] = <<[k |-> "err", n |-> j + 1], NL2>>
            /\ Cardinality(ErrorEntries(j)) = 1
       /\ chunkPc[j] = "ok" =>
            /\ results[j] = <<Tr(j)>> \o (IF total > 1 THEN <<NL2>> ELSE <<>>)
            /\ ErrorEntries(j) = {}
       /\ ~Settled(j) => ErrorEntries(j) = {}
  /\ jobPc \in {"returned", "thrown"} => \A j \in Chunks : Settled(j)

\* A job that returned although a segment of its first batch failed, with a
\* segment of a later batch translated.
C11_Witness ==
  /\ jobPc = "returned"
  /\ \E j, h \in Chunks :
       /\ chunkPc[j] = "failed" /\ BatchNo(j) = 0
       /\ chunkPc[h] = "ok" /\ BatchNo(h) > 0
       /\ results[h] = <<Tr(h), NL2>>

\* C12: when translateText ends, it has thrown exactly when every segment
\* ended in error; when it returned, at least one segment succeeded, the
\* text is the trimmed join of all slots and the error list names exactly
\* the failed segments, each once.
C12_ThrowsIffAllFailed ==
  jobPc \in {"returned", "thrown"} =>
    /\ jobPc = "thrown" <=> \A j \in Chunks : chunkPc[j] = "failed"
    /\ jobPc = "returned" =>
         /\ \E j \in Chunks : chunkPc[j] = "ok"
         /\ nextToEmit = total
         /\ returned = Trim(Concat(results, total))
         /\ \A j \in Chunks :
              Cardinality(ErrorEntries(j)) =
                (IF chunkPc[j] = "failed" THEN 1 ELSE 0)
         /\ ReturnedErrors =
              (IF \E j \in Chunks : chunkPc[j] = "failed"
               THEN translationErrors ELSE Undefined)

\* A job that returned with two failed segments and a translated one.
C12_Witness ==
  /\ jobPc = "returned"
  /\ Len(translationErrors) = 2
  /\ \E j \in Chunks : chunkPc[j] = "ok"

\* C15: every step of translateText that settles a segment j calls the
\* progress callback exactly once, with the text joined up to the new
\* watermark and stats carrying completed, total and lastChunkIndex = j.
C15_CallbackOnSettle ==
  [][\A j \in Chunks :
       (~Settled(j) /\ Settled(j)') =>
         /\ calls' = calls + 1
         /\ progress'.text = Trim(translatedText')
         /\ progress'.completed = nextToEmit'
         /\ progress'.total = total
         /\ progress'.lastChunkIndex = j]_vars

\* C16: in every progress callback stats.completed is the number of
\* segments that are completed (translated) at that moment.
C16_CompletedIsCompletedCount ==
  calls > 0 =>
    progress.completed = Cardinality({ j \in Chunks : chunkPc[j] = "ok" })

\* The placeholder a segment that ended in error holds.
Placeholder(j) == <<[k |-> "err", n |-> j + 1], NL2>>

\* C13: translateTextStream does not return normally when every segment of
\* the job (there being at least one) ended in error.
C13_StreamAllErrorsFatal ==
  (sPc = "returned" /\ total > 0) =>
    \E j \in Chunks : results[j] # Placeholder(j)

\* A transport failure of the request of segment sI happens in this step.
TransportFailure == FetchRejected \/ \E kind \in {"notOk", "noBody"} : FetchNotOk(kind)

\* C14: in translateTextStream a transport failure on segment i leaves the
\* placeholder with number i+1 as the content of slot i, the job goes on:
\* it does not throw, and segment i+1, if there is one, is requested next.
C14_StreamTransportFailureContinues ==
  [][TransportFailure =>
       /\ results'[sI] = Placeholder(sI)
       /\ sPc' # "thrown"
       /\ sI + 1 < total => (sPc' = "fetch" /\ sI' = sI + 1)]_vars

\* C18: in translateTextStream, for every segment whose stream has ended,
\* the chunkDelta values emitted for it, joined, are its final content
\* (the header stripped).
C18_DeltasMakeContent ==
  \A j \in Chunks :
    (sPc # "idle" /\ (j < sI \/ sPc = "returned") /\ results[j] # Placeholder(j)) =>
      emitted[j] = (IF results[j] = Undefined THEN <<>> ELSE results[j])

\* All slots in index order, an unset slot as the empty text, adjacent slots
\* separated by one double newline when there are several.
RECURSIVE JoinSlots(_, _)
JoinSlots(res, n) ==
  IF n = 0 THEN <<>>
  ELSE (IF n = 1 THEN <<>> ELSE JoinSlots(res, n - 1) \o <<NL2>>) \o
       (IF res[n - 1] = Undefined THEN <<>> ELSE res[n - 1])

\* C19: in translateTextStream the text given to every progress callback,
\* and the text returned, is the trimmed join of all slots in index order,
\* with exactly one double newline between adjacent slots.
C19_StreamJoin ==
  /\ (sPc # "idle" /\ calls > 0) => progress.text = Trim(JoinSlots(results, total))
  /\ sPc = "returned" => returned = Trim(JoinSlots(results, total))

\* C19, for the callback of a transport failure that follows a translated
\* segment.
C19_AfterTranslatedSegment ==
  (sPc # "idle" /\ calls > 0 /\ total = 2 /\ results[0] = <<Tr(0), Tr(0)>>
     /\ results[1] = Placeholder(1)) =>
    progress.text = <<Tr(0), Tr(0), NL2, [k |-> "err", n |-> 2]>>

\* C17: a progress callback of a job that has been superseded (the
\* handleRetryAll job, once a handleTranslate job has been started while it
\* runs) changes neither the per-segment contents, nor the per-segment
\* states, nor the completed counter, nor the output text.
C17_SupersededJobIgnored ==
  [][(isLoading /\ isRetrying /\ updates' = updates + 1
        /\ lastCaller' = "retry") =>
       UNCHANGED <<outputChunks, chunkStates, completedChunks,
                   outputText>>]_vars

\* C20: computeOffsets returns one range per chunk, in chunk order; every
\* range has 0 <= start <= end <= length(original); and each range starts
\* at or after the end of the one before.
C20_OffsetsOrdered ==
  /\ Len(ranges) <= nChunks
  /\ oPc = "done" => Len(ranges) = nChunks
  /\ \A i \in DOMAIN ranges :
       /\ 0 <= ranges[i].start
       /\ ranges[i].start <= ranges[i].end
       /\ ranges[i].end <= Len(original)
  /\ \A i \in DOMAIN ranges :
       i + 1 \in DOMAIN ranges => ranges[i + 1].start >= ranges[i].end

\* computeOffsets has returned two ranges: a non-empty one, then one that
\* was found further on in the original text, its chunk carrying a marker.
C20_Witness ==
  /\ oPc = "done"
  /\ Len(ranges) = 2
  /\ ranges[1].start < ranges[1].end
  /\ ranges[2].start > ranges[1].end
  /\ ranges[2].end > ranges[2].start
  /\ lastMarked

\* C21: the range computeOffsets returns for the last segment ends at the
\* end of the original text (stated for a last segment that is not empty
\* and whose range is not empty).
C21_LastRangeToEnd ==
  (oPc = "done" /\ nChunks > 0 /\ lastLen > 0
     /\ ranges[nChunks].end > ranges[nChunks].start) =>
    ranges[nChunks].end = Len(original)

\* C22: when computeOffsets goes on from segment i to segment i+1, the
\* range of segment i ends where the probe of segment i+1 is found, the
\* search starting at start_i + floor(length(cleaned_i) / 2); it ends at
\* start_i + length(cleaned_i) only when that probe is not found (stated
\* for a segment i that fits in the original from start_i on, and a
\* segment i+1 whose probe is not empty and does not occur inside
\* segment i).
NextProbeAt(chunk) ==
  IndexOf(original, Probe(StripCnHeader(chunk)),
          ranges[Len(ranges)].start + (lastLen \div 2))

C22_EndAtNextProbe ==
  [][\A chunk \in OffsetChunks :
       (/\ OffsetStep(chunk)
        /\ Len(ranges) >= 1
        /\ Probe(StripCnHeader(chunk)) # <<>>
        /\ ranges[Len(ranges)].start + lastLen <= Len(original)
        /\ NextProbeAt(chunk) = -1
             \/ NextProbeAt(chunk) >= ranges[Len(ranges)].start + lastLen) =>
         LET r == ranges[Len(ranges)]
             m == NextProbeAt(chunk)
         IN r.end = (IF m >= 0 THEN m ELSE r.start + lastLen)]_vars

(***************************************************************************)
(* Claims about splitTextIntoChunks.                                       *)
(***************************************************************************)
RECURSIVE Flatten(_)
Flatten(ss) == IF Len(ss) = 0 THEN <<>> ELSE Head(ss) \o Flatten(Tail(ss))

NonWhite(s) == SelectSeq(s, LAMBDA ch : ~IsWhite(ch))

\* C23: the segments the version in use returns, put together in order
\* and with all whitespace deleted, are the text with all whitespace
\* deleted: every character of the text that is not whitespace is there
\* once, at its place.
C23_NothingLost ==
  splitPc = "current" =>
    NonWhite(Flatten(splitChunks)) = NonWhite(inputText)

C23_Witness ==
  /\ splitPc = "current"
  /\ Len(splitChunks) >= 2
  /\ Len(inputText) > Len(NonWhite(inputText))
  /\ Len(NonWhite(inputText)) > maxChunkSize
  /\ \E i \in 1 .. Len(splitChunks) : Len(splitChunks[i]) = maxChunkSize

\* C24: every segment the version in use returns has at most maxSize
\* characters.
C24_Bounded ==
  splitPc = "current" =>
    \A i \in 1 .. Len(splitChunks) : Len(splitChunks[i]) <= maxChunkSize

\* The positions of the input text a segment holds.
Positions(seg) == { seg[i].p : i \in 1 .. Len(seg) } \ {0}

\* C25: in both versions the segments are returned in the order of the
\* text: everything of the text in a segment lies to the left of
\* everything of the text in a later segment.
C25_SourceOrder ==
  splitPc \in { "current", "old" } =>
    \A i, j \in 1 .. Len(splitChunks) :
      i < j => \A a \in Positions(splitChunks[i]) :
                 \A b \in Positions(splitChunks[j]) : a < b

StartsWith(s, prefix) ==
  Len(s) >= Len(prefix) /\ SubSeq(s, 1, Len(prefix)) = prefix

\* C26: when the version in use returns more than one segment, segment i
\* begins with the position marker of i + 1 and the number of segments;
\* a result of one segment has no marker.
C26_Markers ==
  splitPc = "current" =>
    /\ Len(splitChunks) > 1 =>
         \A i \in 1 .. Len(splitChunks) :
           StartsWith(splitChunks[i], ContextInfo(i - 1, Len(splitChunks)))
    /\ Len(splitChunks) = 1 =>
         \A k \in 1 .. Len(splitChunks[1]) : splitChunks[1][k].p > 0

\* No request was sent, nothing was retried and no segment was recorded
\* as failed.
NothingDone ==
  /\ \A j \in Chunks : chunkPc[j] = "idle" /\ retryCount[j] = 0
                         /\ results[j] = Undefined
  /\ translationErrors = <<>>
  /\ attempts = 0 /\ waits = 0
  /\ calls = 0 /\ nextToEmit = 0
  /\ pending = <<>>

\* C27: with a model that is not supported, a job of translateText or of
\* translateTextStream that has started has thrown, and no request was
\* sent, nothing retried and no segment recorded as failed.
C27_UnsupportedThrows ==
  ~Supported(model) =>
    /\ jobPc \in { "start", "thrown" }
    /\ sPc \in { "idle", "thrown" }
    /\ NothingDone

\* The same for the jobs with at least one segment.
C27_WithSegments ==
  (~Supported(model) /\ total > 0) =>
    /\ jobPc \in { "start", "thrown" }
    /\ sPc \in { "idle", "thrown" }
    /\ NothingDone

(***************************************************************************)
(* Claims about the proxy.                                                 *)
(***************************************************************************)
\* The stream holds the meta event of token m, and no content event
\* before it.
MetaFirst(m) ==
  \E i \in 1 .. Len(pEvents) :
    /\ pEvents[i] = MetaEvent(m)
    /\ \A k \in 1 .. i - 1 : pEvents[k].event # "content"

\* C28: when the proxy has answered a request that carries a __meta
\* token, the body it forwarded upstream, if any, is the request's body
\* without the token, and the client has the token back unchanged: in
\* clientMeta of the JSON response, or in a meta event of the stream that
\* no content event precedes.
C28_MetaEchoed ==
  (pPc = "done" /\ pReq.body.meta # Absent) =>
    /\ pForwarded.sent => pForwarded.body.meta = Absent
    /\ IF pReq.streaming THEN MetaFirst(pReq.body.meta)
       ELSE pResp.clientMeta = pReq.body.meta

\* The same for the requests with a truthy token that the proxy answers
\* with upstream's answer.
C28_WhenAnswered ==
  (/\ pPc = "done" /\ MetaTruthy(pReq.body.meta)
   /\ pReq.apikey
   /\ pReq.streaming \/ pResp.success) =>
    /\ pForwarded.sent /\ pForwarded.body.meta = Absent
    /\ IF pReq.streaming THEN MetaFirst(pReq.body.meta)
       ELSE pResp.clientMeta = pReq.body.meta

\* C29: in translateText a failed attempt with an error that is not
\* transient (an HTTP error response, a response that cannot be read) is
\* followed by the next attempt without a wait and takes one unit of the
\* retry budget; a segment all of whose attempts fail so is settled as an
\* error by the failure of its attempt number maxRetries + 1, with no wait
\* started.
C29_PermanentNoWait ==
  [][\A j \in Chunks : \A e \in Errors :
       (e.kind \in PermanentKinds /\ Failure(j, e)) =>
         /\ ~Exhausted(retryCount[j]) =>
              /\ chunkPc'[j] = "request"
              /\ retryCount'[j] = retryCount[j] + 1
              /\ waits' = waits
         /\ (j = watched /\ onlyPermanent /\ chunkPc'[j] = "failed") =>
              /\ attempts = maxRetries + 1
              /\ waits = 0
         /\ (j = watched /\ onlyPermanent /\ attempts = maxRetries + 1) =>
              chunkPc'[j] = "failed"]_vars

\* The last attempt of a segment whose attempts have all failed with a
\* permanent error is in flight, and no wait was started.
C29_Witness ==
  /\ total > 1
  /\ chunkPc[watched] = "request"
  /\ retryCount[watched] = maxRetries
  /\ attempts = maxRetries + 1
  /\ onlyPermanent
  /\ waits = 0

\* C30: in translateTextStream a content delta goes to the index of the
\* most recent meta event of the segment's stream, and to the segment's
\* own index i when the stream has had no meta event: the delta changes
\* that slot only and is reported with that index.  A stream starts with
\* no meta event held, whatever the streams before it received.
C30_DeltaAttribution ==
  /\ [][\A n \in 1 .. Len(pending) :
          Delta(n) =>
            LET idx == IF lastMeta # Null THEN lastMeta ELSE sI
            IN /\ progress'.lastChunkIndex = idx
               /\ \A k \in Chunks \ {idx} :
                    results'[k] = results[k] /\ emitted'[k] = emitted[k]
               /\ emitted'[idx] # emitted[idx] \/ progress'.chunkDelta = <<>>]_vars
  /\ [](sPc \in {"idle", "fetch"} => lastMeta = Null)

\* The first stream carried the index 1 in its meta event and its text
\* went to slot 1; the second stream has had no meta event and its delta
\* went to its own slot, 1.
C30_Witness ==
  /\ sPc = "read" /\ sI = 1
  /\ lastMeta = Null
  /\ results[0] = Undefined
  /\ progress.lastChunkIndex = 1 /\ progress.isChunkFinal = FALSE
  /\ emitted[1] = <<Tr(0), Tr(0), Tr(1)>>

\* C31: translateTextStream has one connection open at most: the request
\* of a segment after the first is issued for segment i + 1 only, and only
\* in the step in which the stream of segment i ends or in which the
\* failure of its request is recorded as the placeholder of slot i.
C31_OneStreamAtATime ==
  [][(sPc' = "fetch" /\ (sPc # "fetch" \/ sI' # sI)) =>
       IF sPc = "idle" THEN sI' = 0
       ELSE /\ sI' = sI + 1
            /\ \/ sPc = "read" /\ pending = <<>>
               \/ sPc = "fetch" /\ results'[sI] = Placeholder(sI)]_vars

\* The third request is in flight after a request that failed and a
\* stream that delivered its text.
C31_Witness ==
  /\ sPc = "fetch" /\ sI = 2
  /\ results[0] = Placeholder(0)
  /\ results[1] = <<Tr(1), Tr(1)>>

\* C32: every segment the version in use returns, the last one apart, has
\* at least 0.95 * maxSize characters: the running buffer becomes a
\* segment only once it has reached that size, and what remains at the
\* end is the last segment.
C32_FlushedAtThreshold ==
  splitPc = "current" =>
    \A i \in 1 .. Len(splitChunks) - 1 :
      Len(splitChunks[i]) * 100 >= maxChunkSize * 95

\* Two pieces were joined in the buffer before it was flushed, and the
\* last segment is what remained, under the threshold.
C32_Witness ==
  /\ splitPc = "current"
  /\ Len(splitChunks) = 2
  /\ \E k \in 1 .. Len(splitChunks[1]) : splitChunks[1][k].p = 0
  /\ Len(splitChunks[2]) * 100 < maxChunkSize * 95

(***************************************************************************)
(* Claims about the hard split.                                            *)
(***************************************************************************)
\* The punctuation marks of the first m characters of r that lie in the
\* last 20% of that window: the marks whose character ends after 0.8 * m.
MarksInLastFifth(r, m) ==
  { i \in 1 .. m : i * 10 > m * 8 /\ r[i].c \in Punctuation }

\* C33: in the version in use a sentence longer than maxSize is cut, as
\* long as more than maxSize characters remain, right after the last
\* punctuation mark in the last 20% of the window of maxSize characters,
\* or at maxSize when there is none; every piece is not empty and has at
\* most maxSize characters, and the pieces in order, with what remains to
\* cut, are the sentence.
C33_CutAtPunctuation ==
  /\ [][HardSplitStep =>
          LET piece == hPieces'[Len(hPieces')]
              marks == MarksInLastFifth(hRest, hMax)
              cut == IF Len(hRest) <= hMax THEN Len(hRest)
                     ELSE IF marks # {}
                            THEN CHOOSE i \in marks : \A k \in marks : k <= i
                            ELSE hMax
          IN /\ piece = SubSeq(hRest, 1, cut)
             /\ Len(piece) >= 1 /\ Len(piece) <= hMax]_vars
  /\ [](hVersion = "current" => Flatten(hPieces) \o hRest = hSentence)

\* The first cut was made right after a punctuation mark that is not the
\* last character of the window, the window holding a mark before the
\* last 20% as well; the sentence was cut to its end.
C33_Witness ==
  /\ hVersion = "current" /\ hPc = "done"
  /\ Len(hPieces) >= 2
  /\ Len(hPieces[1]) < hMax
  /\ hPieces[1][Len(hPieces[1])].c \in Punctuation
  /\ hPieces[1][1].c \in Punctuation
  /\ hSentence[hMax].c \notin Punctuation

\* C40: the hard split ends, in both versions: every iteration of its loop
\* takes at least one character off the remaining sentence, and the loop
\* comes to the empty remainder and is left.
C40_HardSplitEnds ==
  /\ [][(HardSplitStep \/ OldHardSplitStep) => Len(hRest') < Len(hRest)]_vars
  /\ <>(hPc = "done" /\ Len(hRest) = 0)

\* Both versions have cut a sentence into several pieces and left the loop.
C40_Witness ==
  /\ hPc = "done"
  /\ Len(hPieces) >= 3
  /\ Flatten(hPieces) = hSentence
  /\ hMax > 1

\* C34: translateText takes both shapes of response: a proxy envelope
\* {success, data} and a bare provider payload, which has neither a
\* success nor a data field, make the attempt succeed; an attempt that got
\* a response fails only when the response reports failure.
C34_BothShapesAccepted ==
  [][\A j \in Chunks : \A r \in ResponseShapes : \A p \in Payloads(j) :
       \A echo \in EchoedIndex(j) :
         Response(j, r, p, echo) =>
           /\ (r.success = "true" /\ r.data = "payload") => chunkPc'[j] = "ok"
           /\ (r.success = "undefined" /\ r.data = "undefined" /\ r.bare) =>
                chunkPc'[j] = "ok"
           /\ chunkPc'[j] # "ok" => r.success = "false"]_vars

\* The same for the proxy envelope alone.
C34_EnvelopeAccepted ==
  [][\A j \in Chunks : \A r \in ResponseShapes : \A p \in Payloads(j) :
       \A echo \in EchoedIndex(j) :
         (Response(j, r, p, echo) /\ r.success = "true" /\ r.data = "payload")
           => chunkPc'[j] = "ok"]_vars

(***************************************************************************)
(* C35: in the UI progress handler a progress update for segment idx       *)
(* changes only slot idx of outputChunks; the contents stored for the      *)
(* other segments stay as they are, also on the first translation after    *)
(* the page load, when the handler reads the totalChunks captured at the   *)
(* start of the translation.                                               *)
(***************************************************************************)
C35_OnlyOwnSlot ==
  [][\A stats \in AppStats(appTotalChunks) :
       AppOnProgress(stats) =>
         \A i \in DOMAIN appOutputChunks :
           i # stats.lastChunkIndex =>
             /\ i \in DOMAIN appOutputChunks'
             /\ appOutputChunks'[i] = appOutputChunks[i]]_vars

\* The same frame for the store with per-segment states (part_002).
C35_StoreOnlyOwnSlot ==
  [][\A text \in UiTexts : \A stats \in UiStats :
       (OnProgress(text, stats) \/ RetryProgress(text, stats)) =>
         \A i \in Slots :
           i # stats.lastChunkIndex => outputChunks'[i] = outputChunks[i]]_vars

(***************************************************************************)
(* C36: in the UI with per-segment states, after any sequence of progress  *)
(* updates of translate and retry jobs, the completedChunks counter that   *)
(* is displayed equals the number of slots whose state is 'completed'.     *)
(***************************************************************************)
C36_CounterIsCompletedSlots == completedChunks = Count(chunkStates)

(***************************************************************************)
(* C37: when translateText returns normally or translateTextStream         *)
(* returns, the watermark has reached the end: the last progress callback  *)
(* reported completed = total and the results hold an entry for every      *)
(* segment index, also when the stream of some segment ended without a     *)
(* content delta.                                                          *)
(***************************************************************************)
C37_ReturnsAtEnd ==
  (jobPc = "returned" \/ sPc = "returned") =>
    /\ nextToEmit = total
    /\ calls > 0 => progress.completed = total
    /\ \A j \in Chunks : IsDefined(results[j])

\* A segment whose response was parsed and stored in results.
Stored(j) == IsDefined(results[j]) /\ results[j] # Placeholder(j)

(***************************************************************************)
(* C38: in translateText, once the response of a segment has been parsed   *)
(* and stored in results, the segment is not requested again, its content  *)
(* is not replaced by an error placeholder and it gets no entry in the     *)
(* error list, even if the progress callback made for the success throws.  *)
(***************************************************************************)
C38_StoredIsFinal ==
  [][\A j \in Chunks :
       Stored(j) =>
         /\ results'[j] = results[j]
         /\ \A x \in DOMAIN translationErrors' :
              translationErrors'[x].chunkIndex # j]_vars
  /\ [](\A j \in Chunks : Stored(j) => chunkPc[j] \notin {"request", "backoff"})

\* The same when no callback throws.
C38_StoredIsFinalQuiet ==
  [][\A j \in Chunks :
       Stored(j) =>
         /\ results'[j] = results[j]
         /\ chunkPc'[j] \notin {"request", "backoff"}]_vars

(***************************************************************************)
(* C39: translateText throws "all translation requests failed" only when   *)
(* the request of at least one segment was attempted and failed; it does   *)
(* not throw it for an input of zero segments.                             *)
(***************************************************************************)
C39_ThrowsOnlyAfterFailure ==
  jobPc = "thrown" =>
    /\ total > 0
    /\ \E j \in Chunks : chunkPc[j] = "failed"

=========================================================================
